---- MODULE Spec2Model ----
(***************************************************************************)
(* Builder lifecycle and composition engine of InputBuilder                *)
(* (ratebuilder / spikebuilder on top of genericbuilder).                  *)
(*                                                                         *)
(* Times are integers counting 1/TimeDen ms, so that half-step durations   *)
(* and the rounding int(t*steps_per_ms + 0.5) are represented exactly.     *)
(* The random source is a counter: a draw reads it and advances it.        *)
(***************************************************************************)
EXTENDS Integers, Sequences, FiniteSets, TLC

VARIABLES focus, ops, rate, crb, spk, csb, ssb, rng, own, last, dirty, given

vars == <<focus, ops, rate, crb, spk, csb, ssb, rng, own, last, dirty, given>>

(***************************************************************************)
(* Bounds and input domains                                                *)
(***************************************************************************)
MaxRes == 2
RngMod == 3
MaxRate == 2
MaxChildren == 2
MaxOps == 4
MaxIds == 3

\* one time unit is 1/TimeDen ms; every resolution divides TimeDen
TimeDen == 2 * MaxRes
Ms(n) == n * TimeDen
HalfMs == TimeDen \div 2

RateIds == {1, 2}
SpikeIds == {1, 2}
Channels == {0, 1}
ResVals == {0, 1, MaxRes}
TimeVals == {-1, Ms(1), Ms(1) + HalfMs}
ChanVals == {{0}, {1}, {0, 1}, {1, 8}, {-1, 0}, {-2}}
ParamVals == 1..MaxRate
StartVals == {0, HalfMs, Ms(1)}
None == "None"

(***************************************************************************)
(* Numeric helpers                                                         *)
(***************************************************************************)
Max(a, b) == IF a >= b THEN a ELSE b
Min(a, b) == IF a <= b THEN a ELSE b

\* int(t * steps_per_ms + 0.5) for a time t given in 1/TimeDen ms
Round(t, spm) == (2 * t * spm + TimeDen) \div (2 * TimeDen)

RECURSIVE SortedSeq(_)
SortedSeq(S) ==
    IF S = {} THEN <<>>
    ELSE LET m == CHOOSE x \in S : \A y \in S : x <= y
         IN <<m>> \o SortedSeq(S \ {m})

Range(s) == {s[i] : i \in DOMAIN s}

\* list(set(S)) for a few small integers: the elements come out in the order
\* of their slots in the 8-slot hash table, slot = value mod 8
RECURSIVE list_of_set(_)
list_of_set(S) ==
    IF S = {} THEN <<>>
    ELSE LET m == CHOOSE x \in S : \A y \in S :
                      \/ x % 8 < y % 8
                      \/ x % 8 = y % 8 /\ x <= y
         IN <<m>> \o list_of_set(S \ {m})

\* (channels + 0.5).astype(int32) on an integer: the cast truncates toward 0
round_channel(c) == IF c >= 0 THEN c ELSE c + 1

RECURSIVE SetMax(_)
SetMax(S) == LET x == CHOOSE y \in S : TRUE
             IN IF S = {x} THEN x ELSE Max(x, SetMax(S \ {x}))

RECURSIVE SetMin(_)
SetMin(S) == LET x == CHOOSE y \in S : TRUE
             IN IF S = {x} THEN x ELSE Min(x, SetMin(S \ {x}))

\* position of channel c in the channel vector chs
IndexOf(chs, c) == CHOOSE i \in DOMAIN chs : chs[i] = c

\* one sample of the random source in state seed for cell (row, step)
Noise(seed, row, step) == (seed + row + step) % 2

Ok(g) == [g |-> g, err |-> "ok"]
Fail(g, e) == [g |-> g, err |-> e]

(***************************************************************************)
(* Lifecycle core (genericbuilder): staged computation and freezing        *)
(***************************************************************************)
\* attributes whose setter is not decorated as forcing a rebuild
RebuildExempt == {<<"superimpose", "start_time">>}

\* state reset performed after a successful setter of attribute attr
requires_rebuild(cls, attr, g) ==
    IF <<cls, attr>> \in RebuildExempt
    THEN [g EXCEPT !.pre = FALSE]
    ELSE [g EXCEPT !.pre = FALSE, !.built = FALSE]

set_immutable(g) == [g EXCEPT !.frozen = TRUE]

\* a copy that carries the parameters over and starts out Unbuilt
copy_mutable_unbuilt(g) == [g EXCEPT !.frozen = FALSE, !.pre = FALSE, !.built = FALSE]

copy_mutable(g) == [g EXCEPT !.frozen = FALSE]
copy_immutable(g) == [g EXCEPT !.frozen = TRUE]

requires_built(g) == g.built
requires_preprocessed(g) == g.pre

(***************************************************************************)
(* Rate builders: BaseRateBuilder (OU flavour) and ConstRateBuilder        *)
(***************************************************************************)
EmptyOut == [scalar |-> FALSE, val |-> 0, arr |-> <<>>]

\* BaseRateBuilder._clear: the empty rate array
Rate_clear(g) == [g EXCEPT !.out = EmptyOut]

NewRate(kind) ==
    Rate_clear([kind |-> kind, spm |-> 1, tl |-> 0, ch |-> <<>>, param |-> 1,
                sigma |-> 1, theta |-> 1, delay |-> 1, max_rate |-> 1, src |-> "global",
                frozen |-> FALSE, pre |-> FALSE, built |-> FALSE,
                steps_length |-> 0, out |-> EmptyOut])

\* every rate generator on the process-wide source, whatever it was given
Rate_source_default(g) == "global"

\* the random source a build of g draws from: LegacyRateBuilder its _rng,
\* OURateBuilder the functions of the numpy.random module, the process-wide
\* source; ConstRateBuilder draws nothing
Rate_source(g) == IF g.kind = "legacy" THEN g.src ELSE "global"

Rate_set_steps_per_ms(g, v) ==
    IF g.frozen THEN Fail(g, "FrozenError")
    ELSE IF v >= 1
         THEN Ok(requires_rebuild("rate", "steps_per_ms", [g EXCEPT !.spm = v]))
         ELSE Fail(g, "ValueError")

\* a time_length setter that stores the value and leaves the state flags alone
Rate_set_time_length_keep(g, v) ==
    IF g.frozen THEN Fail(g, "FrozenError")
    ELSE IF v >= 0 THEN Ok([g EXCEPT !.tl = v]) ELSE Fail(g, "ValueError")

Rate_set_time_length(g, v) ==
    IF g.frozen THEN Fail(g, "FrozenError")
    ELSE IF v >= 0
         THEN Ok(requires_rebuild("rate", "time_length", [g EXCEPT !.tl = v]))
         ELSE Fail(g, "ValueError")

Rate_set_channels(g, S) ==
    IF g.frozen THEN Fail(g, "FrozenError")
    ELSE IF \A c \in S : c >= 0
         THEN Ok(requires_rebuild("rate", "channels", [g EXCEPT !.ch = list_of_set(S)]))
         ELSE Fail(g, "ValueError")

\* rate (ConstRateBuilder) / mean (OURateBuilder)
Rate_set_param(g, v) ==
    IF g.frozen THEN Fail(g, "FrozenError")
    ELSE IF v >= 0
         THEN Ok(requires_rebuild("rate", "param", [g EXCEPT !.param = v]))
         ELSE Fail(g, "ValueError")

\* LegacyRateBuilder parameters; theta and the delay argument are reals, held
\* here in units of 1/TimeDen
Leg_set_sigma(g, v) ==
    IF g.frozen THEN Fail(g, "FrozenError")
    ELSE IF v > 0
         THEN Ok(requires_rebuild("rate", "sigma", [g EXCEPT !.sigma = v]))
         ELSE Fail(g, "ValueError")

\* steps_per_ms > theta > 0, against the steps_per_ms of the moment
Leg_set_theta(g, v) ==
    IF g.frozen THEN Fail(g, "FrozenError")
    ELSE IF Ms(g.spm) > v /\ v > 0
         THEN Ok(requires_rebuild("rate", "theta", [g EXCEPT !.theta = v]))
         ELSE Fail(g, "ValueError")

\* np.uint32(delay + 0.5): the number of steps stored
Leg_set_delay(g, v) ==
    IF g.frozen THEN Fail(g, "FrozenError")
    ELSE IF v > 0
         THEN Ok(requires_rebuild("rate", "delay", [g EXCEPT !.delay = Round(v, 1)]))
         ELSE Fail(g, "ValueError")

Leg_set_max_rate(g, v) ==
    IF g.frozen THEN Fail(g, "FrozenError")
    ELSE IF v > 0
         THEN Ok(requires_rebuild("rate", "max_rate", [g EXCEPT !.max_rate = v]))
         ELSE Fail(g, "ValueError")

\* a preprocess that marks the builder preprocessed without recomputing
Rate_preprocess_stale(g) == [g EXCEPT !.pre = TRUE]

Rate_preprocess(g) ==
    [g EXCEPT !.steps_length = Round(g.tl, g.spm), !.pre = TRUE]

\* the concrete build: OU array around the mean, or the scalar rate
Rate_build_out(g, seed) ==
    IF g.kind = "const"
    THEN [scalar |-> TRUE, val |-> g.param, arr |-> <<>>]
    ELSE IF g.kind = "legacy"
    THEN [scalar |-> FALSE, val |-> 0,
          arr |-> [i \in 1..Len(g.ch) |->
                     [t \in 1..g.steps_length |-> g.param + Noise(seed, i, t + g.delay)]]]
    ELSE [scalar |-> FALSE, val |-> 0,
          arr |-> [i \in 1..Len(g.ch) |->
                     [t \in 1..g.steps_length |-> g.param + Noise(seed, i, t)]]]

\* number of draws a build takes from the random source
Rate_draws(g) == IF g.kind = "const" THEN 0 ELSE 1

\* build(): preprocess, validate (nothing to check), concrete build
Rate_build(g, seed) ==
    IF g.frozen THEN [g |-> g, err |-> "FrozenError", steps |-> <<>>, draws |-> 0]
    ELSE LET p == Rate_preprocess([g EXCEPT !.built = FALSE])
         IN [g |-> [p EXCEPT !.out = Rate_build_out(p, seed), !.built = TRUE],
             err |-> "ok",
             steps |-> <<"preprocess", "validate", "build">>,
             draws |-> Rate_draws(g)]

(***************************************************************************)
(* CombinedRateBuilder                                                     *)
(***************************************************************************)
NewCrb ==
    [children |-> <<>>, use_hist_eq |-> FALSE,
     spm |-> 1, tl |-> 0, ch |-> <<>>, steps_length |-> 0,
     frozen |-> FALSE, pre |-> FALSE, built |-> FALSE, out |-> EmptyOut]

\* the time_length getter of a child: ConstRateBuilder returns the rounded
\* duration steps_length / steps_per_ms, BaseRateBuilder the value as set
Rate_time_length(g) ==
    IF g.kind \in {"const", "legacy"} THEN (g.steps_length * TimeDen) \div g.spm ELSE g.tl

\* add_rate_builders: the given object itself is appended
Crb_add_rate_builder(c, i) == [c EXCEPT !.children = Append(@, i)]

\* _preprocess: derive steps_per_ms, channels, time_length from the children
Crb_preprocess(c, rt) ==
    LET kids == c.children
        d == IF kids = <<>> THEN c
             ELSE [c EXCEPT
                     !.spm = rt[kids[1]].spm,
                     !.ch = list_of_set(UNION {Range(rt[kids[k]].ch) : k \in DOMAIN kids}),
                     !.tl = Rate_time_length(rt[kids[1]])]
    IN [d EXCEPT !.steps_length = Round(d.tl, d.spm), !.pre = TRUE]

\* reading time_len_in_steps of child g: a mutable child that is not
\* preprocessed is preprocessed on the way, a frozen one cannot be
Rate_require_preprocessed(g) ==
    IF requires_preprocessed(g) THEN Ok(g)
    ELSE IF g.frozen THEN Fail(g, "NotPreprocessedError")
    ELSE Ok(Rate_preprocess(g))

RECURSIVE Crb_read_children(_, _, _)
Crb_read_children(rt, kids, k) ==
    IF k > Len(kids) THEN [rate |-> rt, err |-> "ok"]
    ELSE LET r == Rate_require_preprocessed(rt[kids[k]])
         IN IF r.err # "ok" THEN [rate |-> rt, err |-> r.err]
            ELSE Crb_read_children([rt EXCEPT ![kids[k]] = r.g], kids, k + 1)

\* a _validate that lets every set of children pass
Crb_validate_lax(c, rt) == [rate |-> rt, err |-> "ok"]
\* a _validate that compares the lengths in steps only
Crb_validate_length_only(c, rt) ==
    LET kids == c.children
        rd == Crb_read_children(rt, kids, 1)
    IN [rate |-> rd.rate,
        err |-> IF rd.err # "ok" THEN rd.err
                ELSE IF Cardinality({rd.rate[kids[k]].steps_length : k \in DOMAIN kids}) > 1
                THEN "AssertionError: common time length"
                ELSE "ok"]

\* _validate: common steps_length, then common steps_per_ms
Crb_validate(c, rt) ==
    LET kids == c.children
        rd == Crb_read_children(rt, kids, 1)
    IN [rate |-> rd.rate,
        err |-> IF rd.err # "ok" THEN rd.err
                ELSE IF Cardinality({rd.rate[kids[k]].steps_length : k \in DOMAIN kids}) > 1
                THEN "AssertionError: common time length"
                ELSE IF Cardinality({rd.rate[kids[k]].spm : k \in DOMAIN kids}) > 1
                THEN "AssertionError: common step size"
                ELSE "ok"]

\* rb.build() for the children k..Len, one after another, stopping at an error
RECURSIVE Crb_build_children(_, _, _, _)
Crb_build_children(rt, kids, k, seed) ==
    IF k > Len(kids) THEN [rate |-> rt, rng |-> seed, err |-> "ok"]
    ELSE LET r == Rate_build(rt[kids[k]], seed)
         IN IF r.err # "ok" THEN [rate |-> rt, rng |-> seed, err |-> r.err]
            ELSE Crb_build_children([rt EXCEPT ![kids[k]] = r.g], kids, k + 1,
                                    (seed + r.draws) % RngMod)

\* value of child g at (channel c, step t) after zero-extension to the union
Crb_extended(g, c, t) ==
    IF g.out.scalar THEN g.out.val
    ELSE IF c \in Range(g.ch) THEN g.out.arr[IndexOf(g.ch, c)][t] ELSE 0

RECURSIVE SumOver(_, _, _, _)
SumOver(rt, kids, c, t) ==
    IF kids = <<>> THEN 0
    ELSE Crb_extended(rt[Head(kids)], c, t) + SumOver(rt, Tail(kids), c, t)

\* the second dimension of the extended arrays: each array child's own number
\* of steps (rb.rate_array.shape[1:]), here that of the first array child
Crb_out_steps(c, rt) ==
    LET arrs == {k \in DOMAIN c.children : ~rt[c.children[k]].out.scalar}
    IN IF arrs = {} THEN 0
       ELSE rt[c.children[CHOOSE k \in arrs : \A j \in arrs : k <= j]].steps_length

\* combine_sum over the extended arrays (a scalar when every child is scalar)
Crb_combine_sum(c, rt) ==
    LET kids == c.children
    IN IF \A k \in DOMAIN kids : rt[kids[k]].out.scalar
       THEN [scalar |-> TRUE, val |-> SumOver(rt, kids, 0, 1), arr |-> <<>>]
       ELSE [scalar |-> FALSE, val |-> 0,
             arr |-> [i \in 1..Len(c.ch) |->
                        [t \in 1..Crb_out_steps(c, rt) |-> SumOver(rt, kids, c.ch[i], t)]]]

\* extended arrays of different lengths cannot be added
Crb_shapes_ok(c, rt) ==
    \A k \in DOMAIN c.children :
        LET g == rt[c.children[k]]
        IN g.out.scalar \/ g.steps_length = Crb_out_steps(c, rt)

\* a build that stores the combined array before the histogram-equalisation
\* branch raises
Crb_build_eager(c, rt, seed) ==
    LET base == [crb |-> c, rate |-> rt, rng |-> seed]
    IN IF c.frozen THEN base @@ [err |-> "FrozenError", steps |-> <<>>]
       ELSE
       LET p == Crb_preprocess([c EXCEPT !.built = FALSE], rt)
           v == Crb_validate(p, rt)
       IN IF v.err # "ok"
          THEN [crb |-> p, rate |-> v.rate, rng |-> seed, err |-> v.err,
                steps |-> <<"preprocess", "validate">>]
          ELSE
          LET b == Crb_build_children(v.rate, p.children, 1, seed)
              err == IF b.err # "ok" THEN b.err
                     ELSE IF ~Crb_shapes_ok(p, b.rate) THEN "ValueError: shape"
                     ELSE IF p.use_hist_eq THEN "ValueError: hist eq"
                     ELSE "ok"
          IN [crb |-> IF err = "ok"
                      THEN [p EXCEPT !.out = Crb_combine_sum(p, b.rate), !.built = TRUE]
                      ELSE IF err = "ValueError: hist eq"
                      THEN [p EXCEPT !.out = Crb_combine_sum(p, b.rate)]
                      ELSE p,
              rate |-> b.rate, rng |-> b.rng, err |-> err,
              steps |-> <<"preprocess", "validate", "build">>]

\* build(): preprocess, validate, then the concrete build
Crb_build(c, rt, seed) ==
    LET base == [crb |-> c, rate |-> rt, rng |-> seed]
    IN IF c.frozen THEN base @@ [err |-> "FrozenError", steps |-> <<>>]
       ELSE
       LET p == Crb_preprocess([c EXCEPT !.built = FALSE], rt)
           v == Crb_validate(p, rt)
       IN IF v.err # "ok"
          THEN [crb |-> p, rate |-> v.rate, rng |-> seed, err |-> v.err,
                steps |-> <<"preprocess", "validate">>]
          ELSE
          LET b == Crb_build_children(v.rate, p.children, 1, seed)
              err == IF b.err # "ok" THEN b.err
                     ELSE IF ~Crb_shapes_ok(p, b.rate) THEN "ValueError: shape"
                     ELSE IF p.use_hist_eq THEN "ValueError: hist eq"
                     ELSE "ok"
          IN [crb |-> IF err = "ok"
                      THEN [p EXCEPT !.out = Crb_combine_sum(p, b.rate), !.built = TRUE]
                      ELSE p,
              rate |-> b.rate, rng |-> b.rng, err |-> err,
              steps |-> <<"preprocess", "validate", "build">>]

\* time_length setter: forwarded to every child, in order
RECURSIVE Crb_forward_time_length(_, _, _, _)
Crb_forward_time_length(rt, kids, k, v) ==
    IF k > Len(kids) THEN [rate |-> rt, err |-> "ok"]
    ELSE LET r == Rate_set_time_length(rt[kids[k]], v)
         IN IF r.err # "ok" THEN [rate |-> rt, err |-> r.err]
            ELSE Crb_forward_time_length([rt EXCEPT ![kids[k]] = r.g], kids, k + 1, v)

Crb_set_time_length(c, rt, v) ==
    IF c.frozen THEN [crb |-> c, rate |-> rt, err |-> "FrozenError"]
    ELSE LET f == Crb_forward_time_length(rt, c.children, 1, v)
         IN [crb |-> IF f.err = "ok"
                     THEN requires_rebuild("combrate", "time_length", c) ELSE c,
             rate |-> f.rate, err |-> f.err]

Crb_set_use_hist_eq(c, b) ==
    IF c.frozen THEN Fail(c, "FrozenError")
    ELSE Ok(requires_rebuild("combrate", "use_hist_eq", [c EXCEPT !.use_hist_eq = b]))

(***************************************************************************)
(* Leaf spike builders: RateBasedSpikeBuilder, ConstRateSpikeBuilder       *)
(***************************************************************************)
NewLeaf(kind) ==
    [kind |-> kind, spm |-> 1, tl |-> 0, ch |-> <<>>, param |-> 1, rvec |-> <<>>, st |-> 0,
     rb |-> set_immutable(NewRate("ou")), src |-> "global",
     frozen |-> FALSE, pre |-> FALSE, built |-> FALSE, out |-> <<>>]

\* RateBasedSpikeBuilder reads its identity from the rate builder it holds
Leaf_steps_per_ms(s) == IF s.kind = "ratebased" THEN s.rb.spm ELSE s.spm
Leaf_time_length(s) == IF s.kind = "ratebased" THEN Rate_time_length(s.rb) ELSE s.tl
Leaf_channels(s) == IF s.kind = "ratebased" THEN s.rb.ch ELSE s.ch

\* mixin steps_length: int(time_length * steps_per_ms + 0.5)
Leaf_steps_length(s) == Round(Leaf_time_length(s), Leaf_steps_per_ms(s))

\* rate_builder setter: a frozen copy of the given rate builder is kept
RateBased_set_rate_builder(s, g) ==
    IF s.frozen THEN Fail(s, "FrozenError")
    ELSE Ok(requires_rebuild("leaf", "rate_builder",
                             [s EXCEPT !.rb = set_immutable(copy_mutable(g))]))

\* RateBasedSpikeBuilder setters: the held rate builder is replaced by a
\* mutable copy, set, and frozen again; a failing set leaves the mutable copy
RateBased_forward(s, attr, r) ==
    IF r.err = "ok"
    THEN Ok(requires_rebuild("leaf", attr, [s EXCEPT !.rb = set_immutable(r.g)]))
    ELSE Fail([s EXCEPT !.rb = copy_mutable(s.rb)], r.err)

Leaf_set_steps_per_ms(s, v) ==
    IF s.frozen THEN Fail(s, "FrozenError")
    ELSE IF s.kind = "ratebased"
    THEN RateBased_forward(s, "steps_per_ms", Rate_set_steps_per_ms(copy_mutable(s.rb), v))
    ELSE IF v >= 1 THEN Ok(requires_rebuild("leaf", "steps_per_ms", [s EXCEPT !.spm = v]))
    ELSE Fail(s, "AssertionError")

Leaf_set_time_length(s, v) ==
    IF s.frozen THEN Fail(s, "FrozenError")
    ELSE IF s.kind = "ratebased"
    THEN RateBased_forward(s, "time_length", Rate_set_time_length(copy_mutable(s.rb), v))
    ELSE IF v >= 0 THEN Ok(requires_rebuild("leaf", "time_length", [s EXCEPT !.tl = v]))
    ELSE Fail(s, "AssertionError")

Leaf_set_channels(s, S) ==
    IF s.frozen THEN Fail(s, "FrozenError")
    ELSE IF s.kind = "ratebased"
    THEN RateBased_forward(s, "channels", Rate_set_channels(copy_mutable(s.rb), S))
    ELSE LET R == {round_channel(c) : c \in S}
         IN IF \A c \in R : c >= 0
            THEN Ok(requires_rebuild("leaf", "channels", [s EXCEPT !.ch = SortedSeq(R)]))
            ELSE Fail(s, "AssertionError")

\* start_time of a spike builder (BaseSpikeBuilder interface)
Leaf_set_start_time(s, v) ==
    IF s.frozen THEN Fail(s, "FrozenError")
    ELSE IF v >= 0 THEN Ok(requires_rebuild("leaf", "start_time", [s EXCEPT !.st = v]))
    ELSE Fail(s, "ValueError")

\* set_properties with a dictionary of one entry
Leaf_set_properties(s, d) ==
    IF d.key = "steps_per_ms" THEN Leaf_set_steps_per_ms(s, d.val)
    ELSE IF d.key = "time_length" THEN Leaf_set_time_length(s, d.val)
    ELSE IF d.key = "channels" THEN Leaf_set_channels(s, d.val)
    ELSE Leaf_set_start_time(s, d.val)

\* ConstRateSpikeBuilder.rate setter: vals is the given value as a list; a
\* value of size 1 is stored as a scalar (param, rvec empty), a longer one as
\* a column with one entry per channel (rvec)
ConstSpike_set_rate(s, vals) ==
    IF s.frozen THEN Fail(s, "FrozenError")
    ELSE IF Len(vals) # 1 /\ Len(vals) # Len(s.ch) THEN Fail(s, "AssertionError: size")
    ELSE IF \E k \in DOMAIN vals : vals[k] < 0 THEN Fail(s, "AssertionError: negative")
    ELSE IF Len(vals) = 1
    THEN Ok(requires_rebuild("leaf", "rate", [s EXCEPT !.param = vals[1], !.rvec = <<>>]))
    ELSE Ok(requires_rebuild("leaf", "rate", [s EXCEPT !.rvec = vals]))

\* the stored rate of a ConstRateSpikeBuilder can be broadcast against
\* (nchannels, steps_length): a scalar, or a column of nchannels entries
ConstSpike_rate_fits(s) == s.rvec = <<>> \/ Len(s.rvec) = Len(s.ch)

\* the rate that row i of the counts is drawn with
ConstSpike_rate_at(s, i) == IF s.rvec = <<>> THEN s.param ELSE s.rvec[i]

\* Poisson counts for every (channel, step) cell, read off the random source
Leaf_poisson(s, seed) ==
    [i \in 1..Len(Leaf_channels(s)) |->
        [t \in 1..Leaf_steps_length(s) |->
            IF s.kind = "constspike" /\ ConstSpike_rate_at(s, i) = 0 THEN 0
            ELSE Noise(seed, i, t)]]

\* the second half of build(): r is the outcome of building the copy of the
\* held rate builder; the counts are drawn from the builder's _rng after it
Leaf_draw(s, r, G, R) ==
    LET held == s.kind = "ratebased"
        theirs == held /\ Rate_source(s.rb) = "own"
        n == IF held THEN r.draws ELSE 0
        G1 == IF theirs THEN G ELSE (G + n) % RngMod
        R1 == IF theirs THEN (R + n) % RngMod ELSE R
        b == IF held THEN [s EXCEPT !.rb = set_immutable(r.g), !.pre = TRUE]
             ELSE [s EXCEPT !.pre = TRUE]
        mine == s.src = "own"
    IN [g |-> [b EXCEPT !.out = Leaf_poisson(b, IF mine THEN R1 ELSE G1),
                        !.built = TRUE],
        err |-> "ok",
        rng |-> IF mine THEN G1 ELSE (G1 + 1) % RngMod,
        own |-> IF mine THEN (R1 + 1) % RngMod ELSE R1]

\* build(): the rate builder is built first (build_copy), then the counts
\* drawn from the builder's _rng; G is the state of the process-wide source,
\* R that of a source of the caller's
Leaf_build_from(s, G, R) ==
    IF s.frozen THEN [g |-> s, err |-> "FrozenError", rng |-> G, own |-> R]
    ELSE IF s.kind = "constspike" /\ ~ConstSpike_rate_fits(s)
    THEN [g |-> [s EXCEPT !.pre = TRUE, !.built = FALSE],
          err |-> "ValueError: shape mismatch", rng |-> G, own |-> R]
    ELSE Leaf_draw(s,
                   Rate_build(copy_mutable(s.rb),
                              IF s.kind = "ratebased" /\ Rate_source(s.rb) = "own"
                              THEN R ELSE G),
                   G, R)

\* the outcome of a build as seen by a caller that has no source of its own
global_outcome(r) == [g |-> r.g, err |-> r.err, rng |-> r.rng]

\* build() of a builder all of whose draws come from the process-wide source
Leaf_build(s, seed) == global_outcome(Leaf_build_from(s, seed, seed))

\* a copy_rebuilt that leaves the random source where it was, so that every
\* builder rebuilt after it repeats the same draw
copy_rebuilt_same(s, seed) ==
    LET r == Leaf_build(copy_mutable(s), seed)
    IN [r EXCEPT !.g.frozen = s.frozen, !.rng = seed]

\* copy_rebuilt(): a built duplicate, as frozen as the original
copy_rebuilt(s, seed) ==
    LET r == Leaf_build(copy_mutable(s), seed)
    IN [r EXCEPT !.g.frozen = s.frozen]

\* spike_step_array of a placed builder: relative steps shifted by the
\* builder's own start step; weight of s at absolute step p of channel row i
Leaf_start_step(s) == Round(s.st, Leaf_steps_per_ms(s))

\* a weight lookup that ignores the channel and reads the builder's first row
Leaf_weight_at_anyrow(s, c, p) ==
    LET rel == p - Leaf_start_step(s)
    IN IF s.out # <<>> /\ rel >= 0 /\ rel < Leaf_steps_length(s)
       THEN s.out[1][rel + 1]
       ELSE 0

Leaf_weight_at(s, c, p) ==
    LET rel == p - Leaf_start_step(s)
    IN IF c \in Range(Leaf_channels(s)) /\ rel >= 0 /\ rel < Leaf_steps_length(s)
       THEN s.out[IndexOf(Leaf_channels(s), c)][rel + 1]
       ELSE 0

\* steps p at which builder s has a spike on some channel
Leaf_spike_steps(s) ==
    {Leaf_start_step(s) + t - 1 :
        t \in {u \in 1..Leaf_steps_length(s) :
                  \E i \in DOMAIN s.out : s.out[i][u] > 0}}
\* a step list that names every step, spike or not
spike_rel_step_array_all(s) ==
    [i \in DOMAIN s.out |-> [k \in DOMAIN s.out[i] |-> k - 1]]

\* the sparse output: per channel the steps with a spike, and their weights
spike_rel_step_array(s) ==
    [i \in DOMAIN s.out |-> SortedSeq({t - 1 : t \in {u \in DOMAIN s.out[i] : s.out[i][u] > 0}})]

spike_weight_array(s) ==
    [i \in DOMAIN s.out |->
        [k \in DOMAIN spike_rel_step_array(s)[i] |-> s.out[i][spike_rel_step_array(s)[i][k] + 1]]]

\* spike_step_array(start_time): the steps offset by round(start_time * steps_per_ms)
spike_step_array(s, start_time) ==
    [i \in DOMAIN s.out |->
        [k \in DOMAIN spike_rel_step_array(s)[i] |->
            spike_rel_step_array(s)[i][k] + Round(start_time, Leaf_steps_per_ms(s))]]

\* spike_time_array(start_time): the offset steps as times
spike_time_array(s, start_time) ==
    [i \in DOMAIN s.out |->
        [k \in DOMAIN spike_rel_step_array(s)[i] |->
            (spike_step_array(s, start_time)[i][k] * TimeDen) \div Leaf_steps_per_ms(s)]]

\* a read that hands out the stored arrays whatever the state
Leaf_read_unguarded(s, attr) ==
    [err |-> "ok",
     val |-> IF attr = "spike_rel_step_array" THEN spike_rel_step_array(s)
             ELSE IF attr = "spike_weight_array" THEN spike_weight_array(s)
             ELSE IF attr = "spike_step_array" THEN spike_step_array(s, Ms(1))
             ELSE spike_time_array(s, Ms(1))]

\* a Built-only read of attribute attr
Leaf_read(s, attr) ==
    IF ~requires_built(s) THEN [err |-> "NotBuiltError", val |-> None]
    ELSE [err |-> "ok",
          val |-> IF attr = "spike_rel_step_array" THEN spike_rel_step_array(s)
                  ELSE IF attr = "spike_weight_array" THEN spike_weight_array(s)
                  ELSE IF attr = "spike_step_array" THEN spike_step_array(s, Ms(1))
                  ELSE spike_time_array(s, Ms(1))]

(***************************************************************************)
(* CombinedSpikeBuilder / RepeaterSpikeBuilder                             *)
(***************************************************************************)
EmptyMap == [x \in {} |-> x]

\* m with key k bound to v (an existing binding is replaced)
Put(m, k, v) == [x \in DOMAIN m \cup {k} |-> IF x = k THEN v ELSE m[x]]

NewCsb ==
    [builders |-> EmptyMap, names |-> EmptyMap, last_count |-> 0,
     repeat |-> {}, tl |-> 0, tl_assigned |-> FALSE, final |-> <<>>,
     spm |-> 1, ch |-> <<>>, st |-> 0, steps_length |-> 0,
     frozen |-> FALSE, pre |-> FALSE, built |-> FALSE, out |-> <<>>]

\* property_setter: refused on a frozen builder, invalidating when it succeeds
property_setter(cls, attr, c, r) ==
    IF c.frozen THEN Fail(c, "FrozenError")
    ELSE IF r.err = "ok" THEN Ok(requires_rebuild(cls, attr, r.g))
    ELSE r

\* the argument may be used as a child: not a frozen view of an unbuilt builder
Usable(g) == ~g.frozen \/ g.built

\* an add_spike_builder that does not look at the state of the argument
Csb_add_spike_builder_lax(c, obj, name) ==
    property_setter("combspike", "spike_builders", c,
        IF ~obj.spike THEN Fail(c, "ValueError: not a spike builder")
        ELSE Ok([c EXCEPT
                   !.builders = Put(@, c.last_count, copy_immutable(obj.g)),
                   !.names = IF name # None THEN Put(@, name, c.last_count) ELSE @,
                   !.last_count = @ + 1]))

\* add_spike_builder(spike_builder_, name): obj.spike tells a spike builder
\* from any other object
Csb_add_spike_builder(c, obj, name) ==
    property_setter("combspike", "spike_builders", c,
        IF ~obj.spike THEN Fail(c, "ValueError: not a spike builder")
        ELSE IF ~Usable(obj.g) THEN Fail(c, "ValueError: frozen, unbuilt")
        ELSE Ok([c EXCEPT
                   !.builders = Put(@, c.last_count, copy_immutable(obj.g)),
                   !.names = IF name # None THEN Put(@, name, c.last_count) ELSE @,
                   !.last_count = @ + 1]))

\* modify_spike_builder(id_val, arg): id_val is a name (byName) or an id,
\* arg is a spike builder or a dictionary
Csb_modify_spike_builder(c, id_val, byName, arg) ==
    property_setter("combspike", "spike_builders", c,
        IF byName /\ id_val \notin DOMAIN c.names THEN Fail(c, "NameError")
        ELSE
        LET uid == IF byName THEN c.names[id_val] ELSE id_val
        IN IF arg.spike
           THEN IF Usable(arg.g)
                THEN Ok([c EXCEPT !.builders = Put(@, uid, copy_immutable(arg.g))])
                ELSE Fail(c, "ValueError: frozen, unbuilt")
           ELSE IF uid \notin DOMAIN c.builders THEN Fail(c, "KeyError")
           ELSE LET r == Leaf_set_properties(copy_mutable(c.builders[uid]), arg)
                IN IF r.err # "ok" THEN Fail(c, r.err)
                   ELSE Ok([c EXCEPT !.builders = Put(@, uid, copy_immutable(r.g))]))

\* pop_spike_builder(id_val): isinstance(str, id_val) raises for every id_val
Csb_pop_spike_builder(c, id_val) ==
    property_setter("combspike", "spike_builders", c, Fail(c, "TypeError"))

\* RepeaterSpikeBuilder.time_length setter: None and 0 mean "derive it"
Csb_reset_time_length(c) ==
    IF c.frozen THEN Fail(c, "FrozenError")
    ELSE Ok(requires_rebuild("combspike", "time_length",
                             [c EXCEPT !.tl = 0, !.tl_assigned = FALSE]))

Csb_set_time_length(c, v) ==
    IF c.frozen THEN Fail(c, "FrozenError")
    ELSE IF v = 0
    THEN Ok(requires_rebuild("combspike", "time_length", [c EXCEPT !.tl_assigned = FALSE]))
    ELSE IF v < 0 THEN Fail(c, "ValueError")
    ELSE Ok(requires_rebuild("combspike", "time_length",
                             [c EXCEPT !.tl = v, !.tl_assigned = TRUE]))

\* add_repeat_instance(start_time, sb_id_val)
Csb_add_repeat_instance(c, start, id_val, byName) ==
    property_setter("combspike", "repeat_instances", c,
        IF byName /\ id_val \notin DOMAIN c.names THEN Fail(c, "KeyError")
        ELSE LET uid == IF byName THEN c.names[id_val] ELSE id_val
             IN IF <<start, uid>> \in c.repeat THEN Fail(c, "KeyError")
                ELSE Ok([c EXCEPT !.repeat = @ \cup {<<start, uid>>}]))

\* pop_repeat_instance(start_time, None): the instances starting at start,
\* and the removal of the one of them, ri, that heads the list
Csb_pop_candidates(c, start) == {ri \in c.repeat : ri[1] = start}

Csb_pop_repeat_instance(c, start, ri) ==
    property_setter("combspike", "repeat_instances", c,
        IF Csb_pop_candidates(c, start) = {} THEN Fail(c, "KeyError")
        ELSE Ok([c EXCEPT !.repeat = @ \ {ri}]))

Csb_clear_repeat_instances(c) ==
    property_setter("combspike", "repeat_instances", c, Ok([c EXCEPT !.repeat = {}]))

\* the pairs of S in ascending (lexicographic) order
RECURSIVE SortedPairs(_)
SortedPairs(S) ==
    IF S = {} THEN <<>>
    ELSE LET m == CHOOSE x \in S : \A y \in S :
                     x[1] < y[1] \/ (x[1] = y[1] /\ x[2] <= y[2])
         IN <<m>> \o SortedPairs(S \ {m})

\* adjacent intervals of the sorted list do not overlap
Disjoint(lst) == \A i \in 1..(Len(lst) - 1) : lst[i + 1][1] >= lst[i][2]

\* (start, end, id) of every repeat instance
Csb_intervals(c) ==
    {<<ri[1], ri[1] + Leaf_time_length(c.builders[ri[2]]), ri[2]>> : ri \in c.repeat}

\* a stored child placed at start time st
Placed(g, st) == copy_immutable(Leaf_set_start_time(copy_mutable(g), st).g)
\* fillers placed at the start of the later instance instead of the end of the
\* earlier one
Csb_fillers_late(c, sorted) ==
    IF "filler" \notin DOMAIN c.names THEN Ok(<<>>)
    ELSE LET f == c.builders[c.names["filler"]]
             ends == [k \in DOMAIN sorted |->
                        sorted[k][1] + Leaf_time_length(c.builders[sorted[k][2]])]
             gap(k) == Leaf_set_time_length(copy_mutable(Placed(f, sorted[k + 1][1])),
                                            sorted[k + 1][1] - ends[k])
             n == Len(sorted) - 1
         IN IF \E k \in 1..n : gap(k).err # "ok"
            THEN Fail(<<>>, gap(CHOOSE k \in 1..n : gap(k).err # "ok").err)
            ELSE Ok([k \in 1..n |-> copy_immutable(gap(k).g)])

\* the fillers for the gaps between consecutive instances; err when a gap is
\* negative, which the filler's time_length setter refuses
Csb_fillers(c, sorted) ==
    IF "filler" \notin DOMAIN c.names THEN Ok(<<>>)
    ELSE LET f == c.builders[c.names["filler"]]
             ends == [k \in DOMAIN sorted |->
                        sorted[k][1] + Leaf_time_length(c.builders[sorted[k][2]])]
             gap(k) == Leaf_set_time_length(copy_mutable(Placed(f, ends[k])),
                                            sorted[k + 1][1] - ends[k])
             n == Len(sorted) - 1
         IN IF \E k \in 1..n : gap(k).err # "ok"
            THEN Fail(<<>>, gap(CHOOSE k \in 1..n : gap(k).err # "ok").err)
            ELSE Ok([k \in 1..n |-> copy_immutable(gap(k).g)])
\* a _preprocess that derives the time length from the earliest end
Csb_preprocess_first(c) ==
    LET sorted == SortedPairs(c.repeat)
    IN IF \E ri \in c.repeat : ri[2] \notin DOMAIN c.builders THEN Fail(c, "KeyError")
       ELSE
       LET actual == [k \in DOMAIN sorted |-> Placed(c.builders[sorted[k][2]], sorted[k][1])]
           fill == Csb_fillers(c, sorted)
       IN IF fill.err # "ok" THEN Fail(c, fill.err)
          ELSE IF ~c.tl_assigned /\ c.repeat = {} THEN Fail(c, "ValueError: max of empty")
          ELSE
          LET final == actual \o fill.g
              tl == IF c.tl_assigned THEN c.tl
                    ELSE SetMin({iv[2] : iv \in Csb_intervals(c)})
              spm == IF final = <<>> THEN c.spm ELSE Leaf_steps_per_ms(final[1])
              ch == IF final = <<>> THEN c.ch
                    ELSE SortedSeq(UNION {Range(Leaf_channels(final[k])) : k \in DOMAIN final})
          IN Ok([c EXCEPT !.final = final, !.tl = tl, !.spm = spm, !.ch = ch,
                          !.steps_length = Round(tl, spm), !.pre = TRUE])
\* a _preprocess that takes the channels of the first placed builder only
Csb_preprocess_firstch(c) ==
    LET sorted == SortedPairs(c.repeat)
    IN IF \E ri \in c.repeat : ri[2] \notin DOMAIN c.builders THEN Fail(c, "KeyError")
       ELSE
       LET actual == [k \in DOMAIN sorted |-> Placed(c.builders[sorted[k][2]], sorted[k][1])]
           fill == Csb_fillers(c, sorted)
       IN IF fill.err # "ok" THEN Fail(c, fill.err)
          ELSE IF ~c.tl_assigned /\ c.repeat = {} THEN Fail(c, "ValueError: max of empty")
          ELSE
          LET final == actual \o fill.g
              tl == IF c.tl_assigned THEN c.tl
                    ELSE SetMax({iv[2] : iv \in Csb_intervals(c)})
              spm == IF final = <<>> THEN c.spm ELSE Leaf_steps_per_ms(final[1])
              ch == IF final = <<>> THEN c.ch
                    ELSE Leaf_channels(final[1])
          IN Ok([c EXCEPT !.final = final, !.tl = tl, !.spm = spm, !.ch = ch,
                          !.steps_length = Round(tl, spm), !.pre = TRUE])
\* a _preprocess that appends the placed and filler builders to the list left
\* by the previous run
Csb_preprocess_appending(c) ==
    LET sorted == SortedPairs(c.repeat)
    IN IF \E ri \in c.repeat : ri[2] \notin DOMAIN c.builders THEN Fail(c, "KeyError")
       ELSE
       LET actual == [k \in DOMAIN sorted |-> Placed(c.builders[sorted[k][2]], sorted[k][1])]
           fill == Csb_fillers(c, sorted)
       IN IF fill.err # "ok" THEN Fail(c, fill.err)
          ELSE IF ~c.tl_assigned /\ c.repeat = {} THEN Fail(c, "ValueError: max of empty")
          ELSE
          LET final == c.final \o actual \o fill.g
              tl == IF c.tl_assigned THEN c.tl
                    ELSE SetMax({iv[2] : iv \in Csb_intervals(c)})
              spm == IF final = <<>> THEN c.spm ELSE Leaf_steps_per_ms(final[1])
              ch == IF final = <<>> THEN c.ch
                    ELSE SortedSeq(UNION {Range(Leaf_channels(final[k])) : k \in DOMAIN final})
          IN Ok([c EXCEPT !.final = final, !.tl = tl, !.spm = spm, !.ch = ch,
                          !.steps_length = Round(tl, spm), !.pre = TRUE])

\* RepeaterSpikeBuilder._preprocess followed by CombinedSpikeBuilder._preprocess
Csb_preprocess(c) ==
    LET sorted == SortedPairs(c.repeat)
    IN IF \E ri \in c.repeat : ri[2] \notin DOMAIN c.builders THEN Fail(c, "KeyError")
       ELSE
       LET actual == [k \in DOMAIN sorted |-> Placed(c.builders[sorted[k][2]], sorted[k][1])]
           fill == Csb_fillers(c, sorted)
       IN IF fill.err # "ok" THEN Fail(c, fill.err)
          ELSE IF ~c.tl_assigned /\ c.repeat = {} THEN Fail(c, "ValueError: max of empty")
          ELSE
          LET final == actual \o fill.g
              tl == IF c.tl_assigned THEN c.tl
                    ELSE SetMax({iv[2] : iv \in Csb_intervals(c)})
              spm == IF final = <<>> THEN c.spm ELSE Leaf_steps_per_ms(final[1])
              ch == IF final = <<>> THEN c.ch
                    ELSE SortedSeq(UNION {Range(Leaf_channels(final[k])) : k \in DOMAIN final})
          IN Ok([c EXCEPT !.final = final, !.tl = tl, !.spm = spm, !.ch = ch,
                          !.steps_length = Round(tl, spm), !.pre = TRUE])

\* a _validate that compares the earliest end (min) with the time length
Csb_validate_min(c) ==
    IF Cardinality({Leaf_steps_per_ms(c.builders[u]) : u \in DOMAIN c.builders}) > 1
    THEN "AssertionError: consistent stepsize"
    ELSE IF ~Disjoint(SortedPairs(Csb_intervals(c)))
    THEN "AssertionError: disjoint intervals"
    ELSE IF ~c.tl_assigned THEN "ok"
    ELSE IF c.repeat = {} THEN "ValueError: max of empty"
    ELSE IF SetMin({iv[2] : iv \in Csb_intervals(c)}) <= c.tl THEN "ok"
    ELSE "AssertionError: within the time bounds"

\* CombinedSpikeBuilder._validate, then the RepeaterSpikeBuilder checks
Csb_validate(c) ==
    IF Cardinality({Leaf_steps_per_ms(c.builders[u]) : u \in DOMAIN c.builders}) > 1
    THEN "AssertionError: consistent stepsize"
    ELSE IF ~Disjoint(SortedPairs(Csb_intervals(c)))
    THEN "AssertionError: disjoint intervals"
    ELSE IF ~c.tl_assigned THEN "ok"
    ELSE IF c.repeat = {} THEN "ValueError: max of empty"
    ELSE IF SetMax({iv[2] : iv \in Csb_intervals(c)}) <= c.tl THEN "ok"
    ELSE "AssertionError: within the time bounds"

\* a read that needs derived quantities: a mutable builder preprocesses
\* itself on the way, a frozen one that is not preprocessed cannot
Csb_require_preprocessed(c) ==
    IF requires_preprocessed(c) THEN Ok(c)
    ELSE IF c.frozen THEN Fail(c, "NotPreprocessedError")
    ELSE Csb_preprocess(c)

\* copy_rebuilt() of the final builders k..Len, in order
RECURSIVE Csb_rebuild(_, _, _)
Csb_rebuild(final, k, seed) ==
    IF k > Len(final) THEN [final |-> final, rng |-> seed]
    ELSE LET r == copy_rebuilt(final[k], seed)
         IN Csb_rebuild([final EXCEPT ![k] = r.g], k + 1, r.rng)

RECURSIVE WeightSum(_, _, _)
WeightSum(final, c, p) ==
    IF final = <<>> THEN 0
    ELSE Leaf_weight_at(Head(final), c, p) + WeightSum(Tail(final), c, p)

\* the merged counts: per channel, the weights of all final builders added up
\* at their absolute steps
Csb_merge(c, final) ==
    [i \in 1..Len(c.ch) |->
        [p \in 1..c.steps_length |-> WeightSum(final, c.ch[i], p - 1)]]

\* CombinedSpikeBuilder._build
Csb_build_concrete(c, seed) ==
    IF c.final # <<>> /\
       SetMin({c.final[k].st * c.spm + Leaf_steps_length(c.final[k]) * TimeDen :
                  k \in DOMAIN c.final}) > c.steps_length * TimeDen
    THEN [g |-> c, err |-> "AssertionError: not within time bounds", rng |-> seed]
    ELSE LET r == Csb_rebuild(c.final, 1, seed)
             b == [c EXCEPT !.final = r.final]
         IN IF \E k \in DOMAIN r.final :
                  \E p \in Leaf_spike_steps(r.final[k]) : p >= c.steps_length
            THEN [g |-> b, err |-> "IndexError", rng |-> r.rng]
            ELSE [g |-> [b EXCEPT !.out = Csb_merge(b, r.final), !.built = TRUE],
                  err |-> "ok", rng |-> r.rng]

\* build(): preprocess, validate, then the concrete build
Csb_build(c, seed) ==
    IF c.frozen THEN [g |-> c, err |-> "FrozenError", rng |-> seed, steps |-> <<>>]
    ELSE
    LET p == Csb_preprocess([c EXCEPT !.built = FALSE])
    IN IF p.err # "ok"
       THEN [g |-> [c EXCEPT !.built = FALSE, !.pre = FALSE], err |-> p.err,
             rng |-> seed, steps |-> <<"preprocess">>]
       ELSE LET v == Csb_validate(p.g)
            IN IF v # "ok"
               THEN [g |-> p.g, err |-> v, rng |-> seed,
                     steps |-> <<"preprocess", "validate">>]
               ELSE Csb_build_concrete(p.g, seed) @@
                    [steps |-> <<"preprocess", "validate", "build">>]

(***************************************************************************)
(* SuperimposeSpikeBuilder / DisjointSpikeBuilder                          *)
(***************************************************************************)
\* builders: name -> stored child; order: the names in insertion order
NewSsb(disjoint) ==
    [disjoint |-> disjoint, builders |-> EmptyMap, order |-> <<>>, last_count |-> 0,
     spm |-> 1, tl |-> 0, ch |-> <<>>, st |-> 0, steps_length |-> 0, start_step |-> 0,
     frozen |-> FALSE, pre |-> FALSE, built |-> FALSE, out |-> <<>>]

Ssb_children(c) == [k \in DOMAIN c.order |-> c.builders[c.order[k]]]
\* a _preprocess that takes the latest end as the time length
Ssb_preprocess_span(c) ==
    LET kids == Ssb_children(c)
        d == IF kids = <<>> THEN c
             ELSE LET lo == SetMin({kids[k].st : k \in DOMAIN kids})
                      hi == SetMax({kids[k].st + Leaf_time_length(kids[k]) : k \in DOMAIN kids})
                  IN [c EXCEPT !.tl = hi, !.st = lo,
                               !.spm = Leaf_steps_per_ms(kids[1]),
                               !.ch = SortedSeq(UNION {Range(Leaf_channels(kids[k])) :
                                                          k \in DOMAIN kids})]
    IN [d EXCEPT !.steps_length = Round(d.tl, d.spm),
                 !.start_step = Round(d.st, d.spm), !.pre = TRUE]

\* _preprocess: time_length, start_time, steps_per_ms, channels from the children
Ssb_preprocess(c) ==
    LET kids == Ssb_children(c)
        d == IF kids = <<>> THEN c
             ELSE LET lo == SetMin({kids[k].st : k \in DOMAIN kids})
                      hi == SetMax({kids[k].st + Leaf_time_length(kids[k]) : k \in DOMAIN kids})
                  IN [c EXCEPT !.tl = hi - lo, !.st = lo,
                               !.spm = Leaf_steps_per_ms(kids[1]),
                               !.ch = SortedSeq(UNION {Range(Leaf_channels(kids[k])) :
                                                          k \in DOMAIN kids})]
    IN [d EXCEPT !.steps_length = Round(d.tl, d.spm),
                 !.start_step = Round(d.st, d.spm), !.pre = TRUE]

\* a method that needs derived quantities: a mutable builder preprocesses
\* itself on the way, a frozen one that is not preprocessed cannot
Ssb_require_preprocessed(c) ==
    IF requires_preprocessed(c) THEN Ok(c)
    ELSE IF c.frozen THEN Fail(c, "NotPreprocessedError")
    ELSE Ok(Ssb_preprocess(c))

\* names of the form builder_[0-9]+ are reserved for default naming
Reserved(name) == name = "builder_1"
\* an add_spike_builder that does not compare the stepsizes
Ssb_add_spike_builder_anystep(c, obj, name) ==
    IF c.frozen THEN Fail(c, "FrozenError")
    ELSE
    LET p == Ssb_require_preprocessed(c).g
    IN IF name # None /\ name \in DOMAIN p.builders THEN Fail(p, "ValueError: name in use")
       ELSE IF name = None THEN Fail(p, "NameError")
       ELSE IF Reserved(name) THEN Fail(p, "ValueError: reserved name")
       ELSE IF ~obj.spike THEN Fail(p, "ValueError: not a spike builder")
       ELSE IF ~Usable(obj.g) THEN Fail(p, "ValueError: frozen, unbuilt")
       ELSE Ok(requires_rebuild("superimpose", "spike_builders",
                   [p EXCEPT !.builders = Put(@, name, copy_mutable(obj.g)),
                             !.order = Append(@, name),
                             !.last_count = @ + 1]))

\* add_spike_builder(spike_builder_, name_); with name_ = None the default
\* name is formed from an undefined variable
Ssb_add_spike_builder(c, obj, name) ==
    IF c.frozen THEN Fail(c, "FrozenError")
    ELSE
    LET p == Ssb_require_preprocessed(c).g
    IN IF name # None /\ name \in DOMAIN p.builders THEN Fail(p, "ValueError: name in use")
       ELSE IF name = None THEN Fail(p, "NameError")
       ELSE IF Reserved(name) THEN Fail(p, "ValueError: reserved name")
       ELSE IF ~obj.spike THEN Fail(p, "ValueError: not a spike builder")
       ELSE IF p.order # <<>> /\ Leaf_steps_per_ms(obj.g) # p.spm
       THEN Fail(p, "ValueError: consistent stepsize")
       ELSE IF ~Usable(obj.g) THEN Fail(p, "ValueError: frozen, unbuilt")
       ELSE Ok(requires_rebuild("superimpose", "spike_builders",
                   [p EXCEPT !.builders = Put(@, name, copy_mutable(obj.g)),
                             !.order = Append(@, name),
                             !.last_count = @ + 1]))

\* modify_spike_builder(name, arg): a spike builder argument is never
\* recognised as one; a dictionary is applied to the stored child in place
Ssb_modify_spike_builder(c, name, arg) ==
    IF c.frozen THEN Fail(c, "FrozenError")
    ELSE
    LET p == Ssb_require_preprocessed(c).g
    IN IF name \notin DOMAIN p.builders THEN Fail(p, "ValueError: no such name")
       ELSE IF arg.spike THEN Fail(p, "TypeError")
       ELSE IF Len(p.order) # 1 /\ arg.key = "steps_per_ms" THEN Fail(p, "NameError")
       ELSE LET r == Leaf_set_properties(p.builders[name], arg)
            IN IF r.err # "ok" THEN Fail([p EXCEPT !.builders[name] = r.g], r.err)
               ELSE Ok(requires_rebuild("superimpose", "spike_builders",
                                        [p EXCEPT !.builders[name] = r.g]))

\* pop_spike_builder(name_)
Ssb_pop_spike_builder(c, name) ==
    IF c.frozen THEN Fail(c, "FrozenError")
    ELSE IF name \notin DOMAIN c.builders THEN Fail(c, "ValueError: no such name")
    ELSE Ok([c EXCEPT !.builders = [x \in DOMAIN c.builders \ {name} |-> c.builders[x]],
                      !.order = SelectSeq(@, LAMBDA x : x # name)])

\* spike_builder.steps_per_ms = v for the stored children k..Len, in order
RECURSIVE Ssb_each_steps_per_ms(_, _, _)
Ssb_each_steps_per_ms(c, k, v) ==
    IF k > Len(c.order) THEN Ok(c)
    ELSE LET r == Leaf_set_steps_per_ms(c.builders[c.order[k]], v)
             d == [c EXCEPT !.builders[c.order[k]] = r.g]
         IN IF r.err # "ok" THEN Fail(d, r.err) ELSE Ssb_each_steps_per_ms(d, k + 1, v)

\* steps_per_ms setter: handed on to every stored child
Ssb_set_steps_per_ms(c, v) ==
    IF c.frozen THEN Fail(c, "FrozenError")
    ELSE LET r == Ssb_each_steps_per_ms(c, 1, v)
         IN IF r.err # "ok" THEN r
            ELSE Ok(requires_rebuild("superimpose", "steps_per_ms", r.g))

\* spike_builder.start_time += offset for the stored children k..Len
RECURSIVE Ssb_each_shift(_, _, _)
Ssb_each_shift(c, k, offset) ==
    IF k > Len(c.order) THEN Ok(c)
    ELSE LET g == c.builders[c.order[k]]
             r == Leaf_set_start_time(g, g.st + offset)
             d == [c EXCEPT !.builders[c.order[k]] = r.g]
         IN IF r.err # "ok" THEN Fail(d, r.err) ELSE Ssb_each_shift(d, k + 1, offset)

\* a start_time setter that moves every child by v itself
Ssb_set_start_time_by(c, v) ==
    LET q == Ssb_require_preprocessed(c)
    IN IF q.err # "ok" THEN q
       ELSE IF v <= 0 THEN Fail(q.g, "ValueError")
       ELSE LET r == Ssb_each_shift(q.g, 1, v)
            IN IF r.err # "ok" THEN r
               ELSE Ok(requires_rebuild("superimpose", "start_time", r.g))

\* start_time setter: shifts every stored child; allowed on a frozen builder
Ssb_set_start_time(c, v) ==
    LET q == Ssb_require_preprocessed(c)
    IN IF q.err # "ok" THEN q
       ELSE IF v <= 0 THEN Fail(q.g, "ValueError")
       ELSE LET r == Ssb_each_shift(q.g, 1, v - q.g.st)
            IN IF r.err # "ok" THEN r
               ELSE Ok(requires_rebuild("superimpose", "start_time", r.g))

\* DisjointSpikeBuilder._validate (SuperimposeSpikeBuilder has no check)
Ssb_validate(c) ==
    LET kids == Ssb_children(c)
        ivs == {<<kids[k].st, kids[k].st + Leaf_time_length(kids[k]), k>> : k \in DOMAIN kids}
    IN IF c.disjoint /\ ~Disjoint(SortedPairs(ivs))
       THEN "AssertionError: disjoint intervals"
       ELSE "ok"

\* builder.build() for the stored children k..Len, in insertion order
RECURSIVE Ssb_build_children(_, _, _)
Ssb_build_children(c, k, seed) ==
    IF k > Len(c.order) THEN [g |-> c, err |-> "ok", rng |-> seed]
    ELSE LET r == Leaf_build(c.builders[c.order[k]], seed)
         IN IF r.err # "ok" THEN [g |-> c, err |-> r.err, rng |-> seed]
            ELSE Ssb_build_children([c EXCEPT !.builders[c.order[k]] = r.g], k + 1, r.rng)
\* a merge that keeps the counts of the first child only
Ssb_merge_first(c) ==
    LET kids == Ssb_children(c)
    IN [i \in 1..Len(c.ch) |->
          [p \in 1..c.steps_length |->
              IF kids = <<>> THEN 0
              ELSE Leaf_weight_at(kids[1], c.ch[i], p - 1 + c.start_step)]]

\* the merged counts: the children's absolute steps are taken relative to
\* the composite's start step; a negative index counts from the end
Ssb_merge(c) ==
    LET kids == Ssb_children(c)
    IN [i \in 1..Len(c.ch) |->
          [p \in 1..c.steps_length |->
              WeightSum(kids, c.ch[i], p - 1 + c.start_step)
              + WeightSum(kids, c.ch[i], p - 1 + c.start_step - c.steps_length)]]

\* SuperimposeSpikeBuilder._build
Ssb_build_concrete(c, seed) ==
    LET b == Ssb_build_children(c, 1, seed)
        kids == Ssb_children(b.g)
    IN IF b.err # "ok" THEN b
       ELSE IF \E k \in DOMAIN kids : \E q \in Leaf_spike_steps(kids[k]) :
                  q - c.start_step >= c.steps_length \/ q - c.start_step < -c.steps_length
       THEN [g |-> b.g, err |-> "IndexError", rng |-> b.rng]
       ELSE [g |-> [b.g EXCEPT !.out = Ssb_merge(b.g), !.built = TRUE],
             err |-> "ok", rng |-> b.rng]

\* build(): preprocess, validate, then the concrete build
Ssb_build(c, seed) ==
    IF c.frozen THEN [g |-> c, err |-> "FrozenError", rng |-> seed, steps |-> <<>>]
    ELSE LET p == Ssb_preprocess([c EXCEPT !.built = FALSE])
             v == Ssb_validate(p)
         IN IF v # "ok"
            THEN [g |-> p, err |-> v, rng |-> seed, steps |-> <<"preprocess", "validate">>]
            ELSE Ssb_build_concrete(p, seed) @@
                 [steps |-> <<"preprocess", "validate", "build">>]

(***************************************************************************)
(* State machine                                                           *)
(*   focus  the group of objects the caller works with in this run         *)
(*   ops    number of calls made so far                                    *)
(*   rate   the caller's rate builder objects                              *)
(*   crb    a CombinedRateBuilder; its children are references into rate   *)
(*   spk    the caller's spike builder objects                             *)
(*   csb    a RepeaterSpikeBuilder (CombinedSpikeBuilder)                  *)
(*   ssb    a SuperimposeSpikeBuilder or DisjointSpikeBuilder              *)
(*   rng    state of the random source                                     *)
(*   last   the last call: name, target, error raised, build steps run,    *)
(*          value returned                                                 *)
(*   dirty  per object: a parameter was set since its last successful build*)
(*   given  per stored child: the parameters it had when it was handed over*)
(*          or last changed through its holder                             *)
(***************************************************************************)
Objects == {"r1", "r2", "crb", "s1", "s2", "csb", "ssb"}
RateName(i) == IF i = 1 THEN "r1" ELSE "r2"
SpikeName(i) == IF i = 1 THEN "s1" ELSE "s2"

Call(op, who, err) ==
    [op |-> op, who |-> who, err |-> err, steps |-> <<>>, val |-> None, arg |-> None]

Ident(g) == [spm |-> g.spm, tl |-> g.tl, ch |-> g.ch, param |-> g.param]
LeafIdent(s) ==
    [spm |-> Leaf_steps_per_ms(s), tl |-> Leaf_time_length(s), ch |-> Leaf_channels(s)]

\* a rate builder as its constructor leaves it
MakeRate(kind, spm, tl, S, param) ==
    [NewRate(kind) EXCEPT !.spm = spm, !.tl = tl, !.ch = list_of_set(S), !.param = param]

\* RateBasedSpikeBuilder(rate_builder), ConstRateSpikeBuilder(rate, ...)
MakeRateBased(g) == [RateBased_set_rate_builder(NewLeaf("ratebased"), g).g EXCEPT !.pre = FALSE]
MakeConstSpike(spm, tl, S, param) ==
    [NewLeaf("constspike") EXCEPT !.spm = spm, !.tl = tl, !.ch = SortedSeq(S), !.param = param]

Spike(g) == [spike |-> TRUE, g |-> g]
NotASpike == [spike |-> FALSE, g |-> NewLeaf("constspike")]
Dict(k, v) == [spike |-> FALSE, key |-> k, val |-> v]

\* RepeaterSpikeBuilder({'spike_builders': [('a', a), (name2, b)]})
MakeCsb(kids, name2) ==
    IF kids = <<>> THEN NewCsb
    ELSE [Csb_add_spike_builder(
              Csb_add_spike_builder(NewCsb, Spike(kids[1]), "a").g,
              Spike(kids[2]), name2).g
          EXCEPT !.pre = FALSE]

\* the objects the caller has constructed when the run starts
OuA == MakeRate("ou", 1, Ms(1), {0}, 1)
ConstA == MakeRate("const", 1, Ms(1), {0}, 1)

\* R = RandomState(30); LegacyRateBuilder(mean, sigma, theta=0.5, delay=1,
\* max_rate, channels=[0], steps_per_ms=1, time_length=1, rng=R)
LegA ==
    [MakeRate("legacy", 1, Ms(1), {0}, 1) EXCEPT
        !.sigma = 1, !.theta = HalfMs, !.delay = 1, !.max_rate = 1, !.src = "own"]

\* a leaf spike builder constructed with rng=R
WithOwn(s) == [s EXCEPT !.src = "own"]

InitObjects ==
    [focus : {"rate"},
     r1 : {NewRate("ou"), NewRate("const")}, r2 : {NewRate("const")}, kids : {<<>>},
     s1 : {NewLeaf("constspike")}, s2 : {NewLeaf("constspike")},
     held : {<<>>}, name2 : {"b"}, st2 : {0}, disjoint : {FALSE}]
    \cup
    [focus : {"combrate"},
     r1 : {OuA},
     r2 : {MakeRate("ou", 1, Ms(1), {1}, 2),
           MakeRate("ou", 1, Ms(1) + HalfMs, {0, 1}, 2),
           MakeRate("const", 1, Ms(1), {0}, 2),
           MakeRate("const", 1, Ms(1), {1}, 2)},
     kids : {<<>>, <<1, 2>>},
     s1 : {NewLeaf("constspike")}, s2 : {NewLeaf("constspike")},
     held : {<<>>}, name2 : {"b"}, st2 : {0}, disjoint : {FALSE}]
    \cup
    [focus : {"leaf"},
     r1 : {OuA, ConstA}, r2 : {NewRate("const")}, kids : {<<>>},
     s1 : {MakeRateBased(OuA), MakeRateBased(ConstA), MakeConstSpike(1, Ms(1), {0}, 1)},
     s2 : {NewLeaf("constspike")},
     held : {<<>>}, name2 : {"b"}, st2 : {0}, disjoint : {FALSE}]
    \cup
    [focus : {"seeded"},
     r1 : {OuA, LegA}, r2 : {NewRate("const")}, kids : {<<>>},
     s1 : {WithOwn(MakeRateBased(OuA)), WithOwn(MakeRateBased(LegA)),
           WithOwn(MakeConstSpike(1, Ms(1), {0}, 1))},
     s2 : {NewLeaf("constspike")},
     held : {<<>>}, name2 : {"b"}, st2 : {0}, disjoint : {FALSE}]
    \cup
    [focus : {"combspike", "repeater", "superimpose"},
     r1 : {OuA}, r2 : {NewRate("const")}, kids : {<<>>},
     s1 : {MakeRateBased(OuA)},
     s2 : {MakeConstSpike(1, Ms(1), {0, 1}, 1), MakeConstSpike(MaxRes, HalfMs, {1}, 1)},
     held : {<<>>, <<1, 2>>}, name2 : {"b", "filler"}, st2 : StartVals, disjoint : BOOLEAN]
    \cup
    [focus : {"superimpose"},
     r1 : {OuA}, r2 : {NewRate("const")}, kids : {<<>>},
     s1 : {MakeRateBased(OuA)},
     s2 : {MakeConstSpike(1, Ms(1), {1}, 1)},
     held : {<<>>}, name2 : {"b"}, st2 : StartVals, disjoint : BOOLEAN]

Init ==
    /\ \E c \in InitObjects :
          LET sp == [i \in SpikeIds |-> IF i = 1 THEN c.s1 ELSE [c.s2 EXCEPT !.st = c.st2]]
              hk == [k \in DOMAIN c.held |-> sp[c.held[k]]]
          IN /\ focus = c.focus
             /\ c.focus # "superimpose" => ~c.disjoint /\ c.st2 = 0
             /\ c.focus = "superimpose" => c.held = <<>> /\ c.name2 = "b"
             /\ c.focus = "combspike" => c.name2 = "b"
             /\ c.focus = "repeater" => c.held # <<>>
             /\ rate = [r \in RateIds |-> IF r = 1 THEN c.r1 ELSE c.r2]
             /\ crb = [NewCrb EXCEPT !.children = c.kids]
             /\ spk = sp
             /\ csb = MakeCsb(hk, c.name2)
             /\ ssb = NewSsb(c.disjoint)
             /\ given = [crb |-> [k \in DOMAIN c.kids |->
                                    Ident(IF c.kids[k] = 1 THEN c.r1 ELSE c.r2)],
                         csb |-> [k \in 0..(Len(hk) - 1) |-> LeafIdent(hk[k + 1])],
                         ssb |-> EmptyMap,
                         rb |-> [i \in SpikeIds |-> Ident(sp[i].rb)],
                         from |-> [o \in Objects |-> 0],
                         T |-> [set |-> FALSE, v |-> 0],
                         pp |-> 0]
    /\ ops = 0
    /\ rng = 0
    /\ own = 0
    /\ last = Call("init", "none", "ok")
    /\ dirty = [o \in Objects |-> FALSE]

Budget == ops < MaxOps /\ ops' = ops + 1

\* a setter call on rate builder i: res is the setter's result
RateSetter(i, op, res) ==
    /\ Budget
    /\ rate' = [rate EXCEPT ![i] = res.g]
    /\ last' = Call(op, RateName(i), res.err)
    /\ dirty' = IF res.err = "ok" THEN [dirty EXCEPT ![RateName(i)] = TRUE] ELSE dirty
    /\ UNCHANGED <<focus, crb, spk, csb, ssb, rng, own, given>>

RateSetStepsPerMs(i, v) == RateSetter(i, "set_steps_per_ms", Rate_set_steps_per_ms(rate[i], v))
RateSetTimeLength(i, v) == RateSetter(i, "set_time_length", Rate_set_time_length(rate[i], v))
RateSetChannels(i, S) == RateSetter(i, "set_channels", Rate_set_channels(rate[i], S))
RateSetParam(i, v) == RateSetter(i, "set_param", Rate_set_param(rate[i], v))

RateFreeze(i) ==
    /\ Budget
    /\ rate' = [rate EXCEPT ![i] = set_immutable(@)]
    /\ last' = Call("set_immutable", RateName(i), "ok")
    /\ UNCHANGED <<focus, crb, spk, csb, ssb, rng, own, dirty, given>>

\* a second handle on generator 1: rate[2] = rate[1].copy()
RateCopy ==
    /\ Budget
    /\ rate' = [rate EXCEPT ![2] = copy_mutable(rate[1])]
    /\ last' = Call("copy", RateName(1), "ok")
    /\ given' = [given EXCEPT !.from[RateName(2)] = given.from[RateName(1)]]
    /\ UNCHANGED <<focus, crb, spk, csb, ssb, rng, own, dirty>>

\* R.seed(30): the caller puts its source back into the seeded state
Reseed ==
    /\ Budget
    /\ own' = 0
    /\ last' = Call("seed", "none", "ok")
    /\ UNCHANGED <<focus, rate, crb, spk, csb, ssb, rng, dirty, given>>

LegSetSigma(v) ==
    rate[1].kind = "legacy" /\ RateSetter(1, "set_sigma", Leg_set_sigma(rate[1], v))
LegSetTheta(v) ==
    rate[1].kind = "legacy" /\ RateSetter(1, "set_theta", Leg_set_theta(rate[1], v))
LegSetDelay(v) ==
    rate[1].kind = "legacy" /\ RateSetter(1, "set_delay", Leg_set_delay(rate[1], v))
LegSetMaxRate(v) ==
    rate[1].kind = "legacy" /\ RateSetter(1, "set_max_rate", Leg_set_max_rate(rate[1], v))

RatePreprocess(i) ==
    /\ Budget
    /\ ~rate[i].frozen
    /\ rate' = [rate EXCEPT ![i] = Rate_preprocess(@)]
    /\ last' = [Call("preprocess", RateName(i), "ok") EXCEPT !.steps = <<"preprocess">>]
    /\ UNCHANGED <<focus, crb, spk, csb, ssb, rng, own, dirty, given>>

RateBuild(i) ==
    /\ Budget
    /\ LET mine == Rate_source(rate[i]) = "own"
           r == Rate_build(rate[i], IF mine THEN own ELSE rng)
       IN /\ rate' = [rate EXCEPT ![i] = r.g]
          /\ rng' = IF mine THEN rng ELSE (rng + r.draws) % RngMod
          /\ own' = IF mine THEN (own + r.draws) % RngMod ELSE own
          /\ last' = [Call("build", RateName(i), r.err) EXCEPT !.steps = r.steps]
          /\ dirty' = IF r.err = "ok" THEN [dirty EXCEPT ![RateName(i)] = FALSE] ELSE dirty
          /\ given' = IF r.err = "ok" THEN [given EXCEPT !.from[RateName(i)] = own] ELSE given
    /\ UNCHANGED <<focus, crb, spk, csb, ssb>>

\* reading rate_array (Built only) or time_len_in_steps (Preprocessed only)
RateRead(i, attr) ==
    /\ Budget
    /\ LET g == rate[i]
           r == IF attr = "rate_array"
                THEN IF requires_built(g) THEN Ok(g) ELSE Fail(g, "NotBuiltError")
                ELSE Rate_require_preprocessed(g)
           v == IF r.err # "ok" THEN None
                ELSE IF attr = "rate_array" THEN r.g.out ELSE r.g.steps_length
       IN /\ rate' = [rate EXCEPT ![i] = r.g]
          /\ last' = [Call(attr, RateName(i), r.err) EXCEPT !.val = v]
    /\ UNCHANGED <<focus, crb, spk, csb, ssb, rng, own, dirty, given>>

CrbAdd(i) ==
    /\ Budget
    /\ Len(crb.children) < MaxChildren
    /\ IF crb.frozen
       THEN /\ last' = Call("add_rate_builders", "crb", "FrozenError")
            /\ UNCHANGED <<crb, dirty, given>>
       ELSE /\ crb' = requires_rebuild("combrate", "rate_builders", Crb_add_rate_builder(crb, i))
            /\ last' = Call("add_rate_builders", "crb", "ok")
            /\ dirty' = [dirty EXCEPT !["crb"] = TRUE]
            /\ given' = [given EXCEPT !.crb = Append(@, Ident(rate[i]))]
    /\ UNCHANGED <<focus, rate, spk, csb, ssb, rng, own>>

CrbSetTimeLength(v) ==
    /\ Budget
    /\ LET r == Crb_set_time_length(crb, rate, v)
       IN /\ crb' = r.crb
          /\ rate' = r.rate
          /\ last' = [Call("set_time_length", "crb", r.err) EXCEPT !.arg = v]
          /\ dirty' = [o \in Objects |->
                         IF o = "crb" THEN dirty[o] \/ r.err = "ok"
                         ELSE dirty[o] \/ \E k \in RateIds :
                                 o = RateName(k) /\ r.rate[k] # rate[k]]
          /\ given' = IF r.err = "ok"
                       THEN [given EXCEPT !.T = [set |-> TRUE, v |-> v]] ELSE given
    /\ UNCHANGED <<focus, spk, csb, ssb, rng, own>>

CrbSetUseHistEq(b) ==
    /\ Budget
    /\ LET r == Crb_set_use_hist_eq(crb, b)
       IN /\ crb' = r.g
          /\ last' = Call("set_use_hist_eq", "crb", r.err)
          /\ dirty' = IF r.err = "ok" THEN [dirty EXCEPT !["crb"] = TRUE] ELSE dirty
    /\ UNCHANGED <<focus, rate, spk, csb, ssb, rng, own, given>>

CrbSetDerived_stores(attr) ==
    /\ Budget
    /\ crb' = [crb EXCEPT !.pre = FALSE, !.built = FALSE]
    /\ last' = Call(attr, "crb", "AttributeError")
    /\ UNCHANGED <<focus, rate, spk, csb, ssb, rng, own, dirty, given>>

\* channels and steps_per_ms are derived: get_unsettable
CrbSetDerived(attr) ==
    /\ Budget
    /\ last' = Call(attr, "crb", "AttributeError")
    /\ UNCHANGED <<focus, rate, crb, spk, csb, ssb, rng, own, dirty, given>>

CrbFreeze ==
    /\ Budget
    /\ crb' = set_immutable(crb)
    /\ last' = Call("set_immutable", "crb", "ok")
    /\ UNCHANGED <<focus, rate, spk, csb, ssb, rng, own, dirty, given>>

CrbBuild ==
    /\ Budget
    /\ LET r == Crb_build(crb, rate, rng)
       IN /\ crb' = r.crb
          /\ rate' = r.rate
          /\ rng' = r.rng
          /\ last' = [Call("build", "crb", r.err) EXCEPT !.steps = r.steps]
          /\ dirty' = [o \in Objects |->
                         IF o = "crb" THEN dirty[o] /\ r.err # "ok"
                         ELSE dirty[o] /\ ~\E k \in RateIds :
                                 o = RateName(k) /\ r.rate[k].built /\ r.rate[k] # rate[k]]
    /\ UNCHANGED <<focus, own, spk, csb, ssb, given>>

CrbRead(attr) ==
    /\ Budget
    /\ LET r == IF attr = "rate_array"
                THEN IF requires_built(crb) THEN Ok(crb) ELSE Fail(crb, "NotBuiltError")
                ELSE IF requires_preprocessed(crb) THEN Ok(crb)
                ELSE IF crb.frozen THEN Fail(crb, "NotPreprocessedError")
                ELSE Ok(Crb_preprocess(crb, rate))
           v == IF r.err # "ok" THEN None
                ELSE IF attr = "rate_array" THEN r.g.out ELSE r.g.steps_length
       IN /\ crb' = r.g
          /\ last' = [Call(attr, "crb", r.err) EXCEPT !.val = v]
    /\ UNCHANGED <<focus, rate, spk, csb, ssb, rng, own, dirty, given>>

\* a setter call on the caller's spike builder i: res is the setter's result
SpkSetter(i, op, res) ==
    /\ Budget
    /\ spk' = [spk EXCEPT ![i] = res.g]
    /\ last' = Call(op, SpikeName(i), res.err)
    /\ dirty' = IF res.err = "ok" THEN [dirty EXCEPT ![SpikeName(i)] = TRUE] ELSE dirty
    /\ UNCHANGED <<focus, rate, crb, csb, ssb, rng, own, given>>

SpkSetStepsPerMs(i, v) == SpkSetter(i, "set_steps_per_ms", Leaf_set_steps_per_ms(spk[i], v))
SpkSetTimeLength(i, v) == SpkSetter(i, "set_time_length", Leaf_set_time_length(spk[i], v))
SpkSetChannels(i, S) == SpkSetter(i, "set_channels", Leaf_set_channels(spk[i], S))

\* spike.rate = vals, on a ConstRateSpikeBuilder
SpkSetRate(i, vals) ==
    /\ spk[i].kind = "constspike"
    /\ SpkSetter(i, "set_rate", ConstSpike_set_rate(spk[i], vals))

\* spike.rate_builder = r1
SpkSetRateBuilder(i) ==
    /\ Budget
    /\ spk[i].kind = "ratebased"
    /\ LET r == RateBased_set_rate_builder(spk[i], rate[1])
       IN /\ spk' = [spk EXCEPT ![i] = r.g]
          /\ last' = Call("set_rate_builder", SpikeName(i), r.err)
          /\ dirty' = IF r.err = "ok" THEN [dirty EXCEPT ![SpikeName(i)] = TRUE] ELSE dirty
          /\ given' = IF r.err = "ok" THEN [given EXCEPT !.rb[i] = Ident(rate[1])] ELSE given
    /\ UNCHANGED <<focus, rate, crb, csb, ssb, rng, own>>

SpkFreeze(i) ==
    /\ Budget
    /\ spk' = [spk EXCEPT ![i] = set_immutable(@)]
    /\ last' = Call("set_immutable", SpikeName(i), "ok")
    /\ UNCHANGED <<focus, rate, crb, csb, ssb, rng, own, dirty, given>>

SpkBuild(i) ==
    /\ Budget
    /\ LET r == Leaf_build_from(spk[i], rng, own)
       IN /\ spk' = [spk EXCEPT ![i] = r.g]
          /\ rng' = r.rng
          /\ own' = r.own
          /\ last' = [Call("build", SpikeName(i), r.err) EXCEPT
                        !.steps = IF r.err = "ok" THEN <<"preprocess", "validate", "build">>
                                  ELSE <<>>]
          /\ dirty' = IF r.err = "ok" THEN [dirty EXCEPT ![SpikeName(i)] = FALSE] ELSE dirty
          /\ given' = IF r.err = "ok" THEN [given EXCEPT !.from[SpikeName(i)] = own] ELSE given
    /\ UNCHANGED <<focus, rate, crb, csb, ssb>>

SpkRead(i, attr) ==
    /\ Budget
    /\ LET r == Leaf_read(spk[i], attr)
       IN last' = [Call(attr, SpikeName(i), r.err) EXCEPT !.val = r.val]
    /\ UNCHANGED <<focus, rate, crb, spk, csb, ssb, rng, own, dirty, given>>

BuiltOnly == {"spike_rel_step_array", "spike_weight_array", "spike_step_array",
              "spike_time_array"}

\* a call on the RepeaterSpikeBuilder that only changes the builder itself
CsbCall(op, res, arg) ==
    /\ Budget
    /\ csb' = res.g
    /\ last' = [Call(op, "csb", res.err) EXCEPT !.arg = arg]
    /\ dirty' = IF res.err = "ok" THEN [dirty EXCEPT !["csb"] = TRUE] ELSE dirty
    /\ UNCHANGED <<focus, rate, crb, spk, ssb, rng, own>>

\* the stored children as the holder last received or changed them
CsbGiven(res) ==
    [u \in DOMAIN res.g.builders |->
        IF u \in DOMAIN csb.builders /\ res.g.builders[u] = csb.builders[u]
        THEN given.csb[u] ELSE LeafIdent(res.g.builders[u])]

CsbAdd(i, name) ==
    /\ csb.last_count < MaxIds
    /\ LET res == Csb_add_spike_builder(csb, Spike(spk[i]), name)
       IN CsbCall("add_spike_builder", res, [obj |-> Spike(spk[i]), name |-> name])
          /\ given' = [given EXCEPT !.csb = CsbGiven(res)]

CsbAddOther ==
    /\ LET res == Csb_add_spike_builder(csb, NotASpike, None)
       IN CsbCall("add_spike_builder", res, [obj |-> NotASpike, name |-> None])
          /\ given' = [given EXCEPT !.csb = CsbGiven(res)]

CsbModifySpike(id_val, byName, i) ==
    /\ LET res == Csb_modify_spike_builder(csb, id_val, byName, Spike(spk[i]))
       IN CsbCall("modify_spike_builder", res, None)
          /\ given' = [given EXCEPT !.csb = CsbGiven(res)]

CsbModifyDict(id_val, byName, d) ==
    /\ LET res == Csb_modify_spike_builder(csb, id_val, byName, d)
       IN CsbCall("modify_spike_builder(dict)", res, None)
          /\ given' = [given EXCEPT !.csb = CsbGiven(res)]

CsbPop(id_val) ==
    CsbCall("pop_spike_builder", Csb_pop_spike_builder(csb, id_val), None) /\ UNCHANGED given

\* steps_per_ms and channels are derived: get_unsettable
CsbSetDerived(attr) ==
    /\ Budget
    /\ last' = Call(attr, "csb", "AttributeError")
    /\ UNCHANGED <<focus, rate, crb, spk, csb, ssb, rng, own, dirty, given>>

CsbSetTimeLength(v) ==
    /\ CsbCall("set_time_length", Csb_set_time_length(csb, v), None)
    /\ given' = IF Csb_set_time_length(csb, v).err = "ok"
                THEN [given EXCEPT !.T = [set |-> TRUE, v |-> v]] ELSE given

CsbResetTimeLength ==
    /\ CsbCall("set_time_length(None)", Csb_reset_time_length(csb), None)
    /\ given' = IF Csb_reset_time_length(csb).err = "ok"
                THEN [given EXCEPT !.T = [set |-> FALSE, v |-> 0]] ELSE given

CsbAddRepeat(start, id_val, byName) ==
    CsbCall("add_repeat_instance", Csb_add_repeat_instance(csb, start, id_val, byName), None)
    /\ UNCHANGED given

CsbPopRepeat(start) ==
    /\ \E ri \in IF Csb_pop_candidates(csb, start) = {} THEN {<<start, 0>>}
                 ELSE Csb_pop_candidates(csb, start) :
          CsbCall("pop_repeat_instance", Csb_pop_repeat_instance(csb, start, ri), None)
    /\ UNCHANGED given

CsbClearRepeat ==
    CsbCall("clear_repeat_instances", Csb_clear_repeat_instances(csb), None) /\ UNCHANGED given

CsbFreeze ==
    /\ Budget
    /\ csb' = set_immutable(csb)
    /\ last' = Call("set_immutable", "csb", "ok")
    /\ UNCHANGED <<focus, rate, crb, spk, ssb, rng, own, dirty, given>>

CsbBuild ==
    /\ Budget
    /\ LET r == Csb_build(csb, rng)
       IN /\ csb' = r.g
          /\ rng' = r.rng
          /\ last' = [Call("build", "csb", r.err) EXCEPT !.steps = r.steps]
          /\ dirty' = IF r.err = "ok" THEN [dirty EXCEPT !["csb"] = FALSE] ELSE dirty
    /\ UNCHANGED <<focus, own, rate, crb, spk, ssb, given>>

\* reading spike_builders (Preprocessed only) or an output array (Built only)
CsbRead(attr) ==
    /\ Budget
    /\ LET r == IF attr = "spike_builders" THEN Csb_require_preprocessed(csb)
                ELSE IF requires_built(csb) THEN Ok(csb) ELSE Fail(csb, "NotBuiltError")
           v == IF r.err # "ok" THEN None
                ELSE IF attr = "spike_builders" THEN r.g.builders
                ELSE Leaf_read([kind |-> "composite", built |-> TRUE, out |-> r.g.out,
                                spm |-> r.g.spm], attr).val
       IN /\ csb' = r.g
          /\ last' = [Call(attr, "csb", r.err) EXCEPT !.val = v]
    /\ UNCHANGED <<focus, rate, crb, spk, ssb, rng, own, dirty, given>>

\* a call on the Superimpose/DisjointSpikeBuilder that only changes the builder
SsbCall(op, res, arg) ==
    /\ Budget
    /\ ssb' = res.g
    /\ last' = [Call(op, "ssb", res.err) EXCEPT !.arg = arg]
    /\ dirty' = IF res.err = "ok" /\ op \notin {"set_start_time", "pop_spike_builder"}
              THEN [dirty EXCEPT !["ssb"] = TRUE] ELSE dirty
    /\ given' = [given EXCEPT !.ssb =
                    [n \in DOMAIN res.g.builders |->
                        IF n \in DOMAIN ssb.builders /\ res.g.builders[n] = ssb.builders[n]
                        THEN given.ssb[n] ELSE LeafIdent(res.g.builders[n])]]
    /\ UNCHANGED <<focus, rate, crb, spk, csb, rng, own>>

SsbAdd(i, name) ==
    /\ ssb.last_count < MaxIds
    /\ SsbCall("add_spike_builder", Ssb_add_spike_builder(ssb, Spike(spk[i]), name),
               [obj |-> Spike(spk[i]), name |-> name])

SsbAddOther ==
    SsbCall("add_spike_builder", Ssb_add_spike_builder(ssb, NotASpike, "p1"),
            [obj |-> NotASpike, name |-> "p1"])

SsbModifySpike(name, i) ==
    SsbCall("modify_spike_builder", Ssb_modify_spike_builder(ssb, name, Spike(spk[i])), None)

SsbModifyDict(name, d) ==
    SsbCall("modify_spike_builder(dict)", Ssb_modify_spike_builder(ssb, name, d), None)

SsbPop(name) == SsbCall("pop_spike_builder", Ssb_pop_spike_builder(ssb, name), None)

SsbSetStepsPerMs(v) == SsbCall("set_steps_per_ms", Ssb_set_steps_per_ms(ssb, v), None)

SsbSetStartTime(v) == SsbCall("set_start_time", Ssb_set_start_time(ssb, v), None)

\* time_length and channels are derived: the setter is None
SsbSetDerived(attr) ==
    /\ Budget
    /\ last' = Call(attr, "ssb", "AttributeError")
    /\ UNCHANGED <<focus, rate, crb, spk, csb, ssb, rng, own, dirty, given>>

SsbFreeze ==
    /\ Budget
    /\ ssb' = set_immutable(ssb)
    /\ last' = Call("set_immutable", "ssb", "ok")
    /\ UNCHANGED <<focus, rate, crb, spk, csb, rng, own, dirty, given>>

SsbBuild ==
    /\ Budget
    /\ LET r == Ssb_build(ssb, rng)
       IN /\ ssb' = r.g
          /\ rng' = r.rng
          /\ last' = [Call("build", "ssb", r.err) EXCEPT !.steps = r.steps]
          /\ dirty' = IF r.err = "ok" THEN [dirty EXCEPT !["ssb"] = FALSE] ELSE dirty
    /\ UNCHANGED <<focus, own, rate, crb, spk, csb, given>>

\* reading spike_builders (Preprocessed only) or an output array (Built only)
SsbRead(attr) ==
    /\ Budget
    /\ LET r == IF attr = "spike_builders" THEN Ssb_require_preprocessed(ssb)
                ELSE IF requires_built(ssb) THEN Ok(ssb) ELSE Fail(ssb, "NotBuiltError")
           v == IF r.err # "ok" THEN None
                ELSE IF attr = "spike_builders" THEN r.g.builders
                ELSE Leaf_read([kind |-> "composite", built |-> TRUE, out |-> r.g.out,
                                spm |-> r.g.spm], attr).val
       IN /\ ssb' = r.g
          /\ last' = [Call(attr, "ssb", r.err) EXCEPT !.val = v]
    /\ UNCHANGED <<focus, rate, crb, spk, csb, rng, own, dirty, given>>

GoodTimes == {Ms(1), Ms(1) + HalfMs}

NextRate ==
    \/ \E v \in ResVals : RateSetStepsPerMs(1, v)
    \/ \E v \in TimeVals : RateSetTimeLength(1, v)
    \/ \E S \in ChanVals : RateSetChannels(1, S)
    \/ \E v \in ParamVals : RateSetParam(1, v)
    \/ RateFreeze(1)
    \/ RatePreprocess(1)
    \/ RateBuild(1)
    \/ \E a \in {"rate_array", "time_len_in_steps"} : RateRead(1, a)

NextCombRate ==
    \/ \E i \in RateIds, v \in {1, MaxRes} : RateSetStepsPerMs(i, v)
    \/ \E i \in RateIds, v \in GoodTimes : RateSetTimeLength(i, v)
    \/ \E i \in RateIds : RateFreeze(i)
    \/ \E i \in RateIds : RateBuild(i)
    \/ \E i \in RateIds : CrbAdd(i)
    \/ \E v \in TimeVals : CrbSetTimeLength(v)
    \/ \E b \in BOOLEAN : CrbSetUseHistEq(b)
    \/ \E a \in {"channels", "steps_per_ms"} : CrbSetDerived(a)
    \/ CrbFreeze
    \/ CrbBuild
    \/ \E a \in {"rate_array", "time_len_in_steps"} : CrbRead(a)

NextLeaf ==
    \/ \E v \in ResVals : SpkSetStepsPerMs(1, v)
    \/ \E v \in TimeVals : SpkSetTimeLength(1, v)
    \/ \E S \in ChanVals : SpkSetChannels(1, S)
    \/ SpkSetRateBuilder(1)
    \/ \E v \in GoodTimes : RateSetTimeLength(1, v)
    \/ SpkFreeze(1)
    \/ SpkBuild(1)
    \/ \E a \in BuiltOnly : SpkRead(1, a)

\* property dictionaries handed to modify_spike_builder
ChannelDicts == {Dict("channels", {0, 1})}
TimeDicts == {Dict("time_length", -1), Dict("time_length", Ms(1) + HalfMs)}
StepDicts == {Dict("steps_per_ms", MaxRes)}

NextCombSpike ==
    \/ \E i \in SpikeIds, v \in GoodTimes : SpkSetTimeLength(i, v)
    \/ \E i \in SpikeIds : SpkFreeze(i)
    \/ \E i \in SpikeIds : SpkBuild(i)
    \/ \E i \in SpikeIds, n \in {None, "a"} : CsbAdd(i, n)
    \/ CsbAddOther
    \/ \E u \in 0..MaxIds, i \in SpikeIds : CsbModifySpike(u, FALSE, i)
    \/ \E i \in SpikeIds : CsbModifySpike("a", TRUE, i)
    \/ \E u \in 0..1, d \in ChannelDicts : CsbModifyDict(u, FALSE, d)
    \/ \E u \in 0..1, d \in TimeDicts : CsbModifyDict(u, FALSE, d)
    \/ \E d \in ChannelDicts : CsbModifyDict("a", TRUE, d)
    \/ \E u \in 0..1 : CsbPop(u)
    \/ CsbFreeze
    \/ \E a \in {"spike_builders"} : CsbRead(a)

NextRepeater ==
    \/ \E v \in {-1, 0, Ms(1), Ms(2)} : CsbSetTimeLength(v)
    \/ CsbResetTimeLength
    \/ \E t \in StartVals, u \in 0..2 : CsbAddRepeat(t, u, FALSE)
    \/ \E t \in StartVals : CsbAddRepeat(t, "a", TRUE)
    \/ \E t \in StartVals : CsbPopRepeat(t)
    \/ CsbClearRepeat
    \/ \E d \in TimeDicts \cup StepDicts : CsbModifyDict(0, FALSE, d)
    \/ \E a \in {"steps_per_ms", "channels"} : CsbSetDerived(a)
    \/ CsbFreeze
    \/ CsbBuild
    \/ \E a \in {"spike_builders", "spike_rel_step_array"} : CsbRead(a)

SsbNames == {"p1", "p2"}

NextSuperimpose ==
    \/ \E i \in SpikeIds, v \in GoodTimes : SpkSetTimeLength(i, v)
    \/ \E i \in SpikeIds : SpkFreeze(i)
    \/ \E i \in SpikeIds, n \in SsbNames \cup {None, "builder_1"} : SsbAdd(i, n)
    \/ SsbAddOther
    \/ \E n \in SsbNames, i \in SpikeIds : SsbModifySpike(n, i)
    \/ \E n \in SsbNames, d \in ChannelDicts : SsbModifyDict(n, d)
    \/ \E n \in SsbNames, d \in TimeDicts \cup StepDicts : SsbModifyDict(n, d)
    \/ \E n \in SsbNames : SsbPop(n)
    \/ \E v \in {1, MaxRes} : SsbSetStepsPerMs(v)
    \/ \E v \in {0, Ms(1)} : SsbSetStartTime(v)
    \/ \E a \in {"time_length", "channels"} : SsbSetDerived(a)
    \/ SsbFreeze
    \/ SsbBuild
    \/ \E a \in {"spike_builders", "spike_rel_step_array"} : SsbRead(a)
\* preprocess() called by hand; given.pp counts the calls in a row that
\* succeeded on the same composite
InARow(who) ==
    IF last.op = "preprocess" /\ last.who = who /\ last.err = "ok" THEN given.pp + 1 ELSE 1

CrbPreprocess ==
    /\ Budget
    /\ ~crb.frozen
    /\ crb' = Crb_preprocess(crb, rate)
    /\ last' = [Call("preprocess", "crb", "ok") EXCEPT !.steps = <<"preprocess">>]
    /\ given' = [given EXCEPT !.pp = InARow("crb")]
    /\ UNCHANGED <<focus, rate, spk, csb, ssb, rng, own, dirty>>

CsbPreprocess ==
    /\ Budget
    /\ ~csb.frozen
    /\ LET r == Csb_preprocess(csb)
       IN /\ csb' = r.g
          /\ last' = [Call("preprocess", "csb", r.err) EXCEPT !.steps = <<"preprocess">>]
          /\ given' = IF r.err = "ok" THEN [given EXCEPT !.pp = InARow("csb")] ELSE given
    /\ UNCHANGED <<focus, rate, crb, spk, ssb, rng, own, dirty>>

SsbPreprocess ==
    /\ Budget
    /\ ~ssb.frozen
    /\ ssb' = Ssb_preprocess(ssb)
    /\ last' = [Call("preprocess", "ssb", "ok") EXCEPT !.steps = <<"preprocess">>]
    /\ given' = [given EXCEPT !.pp = InARow("ssb")]
    /\ UNCHANGED <<focus, rate, crb, spk, csb, rng, own, dirty>>

\* runs in which preprocess() is called by hand between parameter changes
NextStaged ==
    \/ /\ focus = "rate"
       /\ \/ RatePreprocess(1)
          \/ \E v \in ResVals : RateSetStepsPerMs(1, v)
          \/ \E v \in TimeVals : RateSetTimeLength(1, v)
    \/ /\ focus = "combrate"
       /\ \/ CrbPreprocess
          \/ \E i \in RateIds : CrbAdd(i)
          \/ \E i \in RateIds : RatePreprocess(i)
          \/ \E i \in RateIds, v \in GoodTimes : RateSetTimeLength(i, v)
    \/ /\ focus = "repeater"
       /\ \/ CsbPreprocess
          \/ \E t \in StartVals \cup {Ms(2)}, u \in 0..1 : CsbAddRepeat(t, u, FALSE)
          \/ \E t \in StartVals : CsbPopRepeat(t)
          \/ \E v \in {0, Ms(2)} : CsbSetTimeLength(v)
    \/ /\ focus = "superimpose"
       /\ \/ SsbPreprocess
          \/ \E i \in SpikeIds, n \in SsbNames : SsbAdd(i, n)
          \/ \E v \in {0, Ms(1)} : SsbSetStartTime(v)
          \/ \E n \in SsbNames, d \in TimeDicts : SsbModifyDict(n, d)

InitStaged == Init /\ focus \in {"rate", "combrate", "repeater", "superimpose"}
SpecStaged == InitStaged /\ [][NextStaged]_vars

\* runs over the single builders / over the children tables of the composites
NextSingle == (focus = "rate" /\ NextRate) \/ (focus = "leaf" /\ NextLeaf)
NextTables == (focus = "combspike" /\ NextCombSpike) \/ (focus = "superimpose" /\ NextSuperimpose)

InitSingle == Init /\ focus \in {"rate", "leaf"}
InitTables == Init /\ focus \in {"combspike", "superimpose"}
SpecSingle == InitSingle /\ [][NextSingle]_vars
SpecTables == InitTables /\ [][NextTables]_vars

InitCombRate == Init /\ focus = "combrate"

\* generators built from a random source of the caller's
ThetaVals == {0, HalfMs, Ms(1) + HalfMs}
DelayVals == {0, 1, Ms(1)}

NextSeeded ==
    \/ Reseed
    \/ \E i \in RateIds : RateBuild(i)
    \/ SpkBuild(1)
    \/ \E i \in RateIds, v \in ResVals : RateSetStepsPerMs(i, v)
    \/ \E v \in ThetaVals : LegSetTheta(v)
    \/ \E v \in 0..1 : LegSetSigma(v)
    \/ \E v \in DelayVals : LegSetDelay(v)
    \/ \E v \in 0..1 : LegSetMaxRate(v)
    \/ SpkSetRateBuilder(1)
    \/ RateFreeze(1)
    \/ RateCopy
    \/ \E a \in {"rate_array"} : RateRead(2, a)

InitSeeded == Init /\ focus = "seeded"
SpecSeeded == InitSeeded /\ [][NextSeeded]_vars

InitRepeater == Init /\ focus = "repeater"
SpecRepeater == InitRepeater /\ [][NextRepeater]_vars

SpecCombRate == InitCombRate /\ [][NextCombRate]_vars


\* ---------------------------------------------------------------------------
\* Properties
\* ---------------------------------------------------------------------------

BuiltOf(o) ==
    CASE o = "r1" -> rate[1].built
      [] o = "r2" -> rate[2].built
      [] o = "crb" -> crb.built
      [] o = "s1" -> spk[1].built
      [] o = "s2" -> spk[2].built
      [] o = "csb" -> csb.built
      [] OTHER -> ssb.built

\* C1: a child stored in a composite is an independent frozen copy, so a later
\* change of the caller's object does not reach the composite.  Stated for
\* CombinedRateBuilder: every stored child still has the parameters it had
\* when it was added, whatever the caller does to the original afterwards.
C1_StoredChildIsolated ==
    \A k \in DOMAIN crb.children : Ident(rate[crb.children[k]]) = given.crb[k]

C3_FrozenNeverChanges ==
    [][\A n \in DOMAIN ssb.builders :
          (/\ ops' # ops
           /\ last'.op = "modify_spike_builder(dict)"
           /\ ssb.builders[n].kind = "ratebased"
           /\ ssb.builders[n].rb.frozen)
          => /\ n \in DOMAIN ssb'.builders
             /\ Ident(ssb'.builders[n].rb) = Ident(ssb.builders[n].rb)]_vars

\* C3 (direct part): a setter call on a frozen rate builder or spike builder
\* fails with FrozenError and changes nothing.
C3_DirectSetterOnFrozen ==
    [][\A i \in RateIds :
          (/\ ops' # ops
           /\ last'.who = RateName(i)
           /\ last'.op \in {"set_steps_per_ms", "set_time_length", "set_channels", "set_param"}
           /\ rate[i].frozen)
          => last'.err = "FrozenError" /\ rate'[i] = rate[i]]_vars


AddStep(who) == ops' # ops /\ last'.op = "add_spike_builder" /\ last'.who = who

\* the argument is a spike builder that is not a frozen view of an unbuilt one
Acceptable(obj) == obj.spike /\ (~obj.g.frozen \/ obj.g.built)

\* a name SuperimposeSpikeBuilder.add_spike_builder turns down, or a stepsize
\* that differs from the one of the children already held
SsbTurnsDown(a) ==
    \/ a.name = None
    \/ a.name \in DOMAIN ssb.builders
    \/ Reserved(a.name)
    \/ /\ a.obj.spike /\ ssb.order # <<>>
       /\ Leaf_steps_per_ms(a.obj.g) # Leaf_steps_per_ms(ssb.builders[ssb.order[1]])

ReadStep(attrs) == ops' # ops /\ last'.op \in attrs

\* C5: reading a Built-only attribute of a generator that is not Built fails
\* with NotBuiltError, in state Built the read succeeds; either way the read
\* changes no state.
C5_BuiltOnlyRead ==
    [][ReadStep(BuiltOnly \cup {"rate_array"})
          => /\ rate' = rate /\ spk' = spk /\ rng' = rng /\ dirty' = dirty
             /\ IF BuiltOf(last'.who) THEN last'.err = "ok"
                ELSE last'.err = "NotBuiltError"]_vars

\* a spike builder that was built and then changed is asked for its output
C5_Witness ==
    /\ last.op = "spike_step_array" /\ last.who = "s1"
    /\ last.err = "NotBuiltError"
    /\ spk[1].out # <<>> /\ ~spk[1].built

BuildStep(who) == ops' # ops /\ last'.op = "build" /\ last'.who = who

\* nothing was built, drawn or written in this step of the CombinedRateBuilder
CrbNothingBuilt ==
    /\ rng' = rng
    /\ crb'.out = crb.out /\ ~crb'.built
    /\ \A i \in RateIds : rate'[i].out = rate[i].out /\ rate'[i].built = rate[i].built

\* the children do not agree on the length in steps or on steps_per_ms
CrbChildrenDisagree ==
    \E j, k \in DOMAIN crb.children :
        LET a == rate[crb.children[j]]
            b == rate[crb.children[k]]
        IN Round(a.tl, a.spm) # Round(b.tl, b.spm) \/ a.spm # b.spm

\* C7: build() runs preprocess, validate, concrete build in this order, and
\* when validation fails (here: the children of a CombinedRateBuilder
\* disagree) the concrete build does not run: no child is built, no random
\* draw is consumed, no output is written, and the caller gets the error.
C7_ValidateBeforeBuild ==
    [][BuildStep("crb")
          => /\ last'.steps \in {<<>>, <<"preprocess", "validate">>,
                                 <<"preprocess", "validate", "build">>}
             /\ ~crb.frozen /\ CrbChildrenDisagree
                => /\ last'.err # "ok"
                   /\ last'.steps = <<"preprocess", "validate">>
             /\ last'.steps = <<"preprocess", "validate">>
                => last'.err # "ok" /\ CrbNothingBuilt]_vars

\* a build stopped by the validation of the children's common time length
C7_Witness ==
    /\ last.op = "build" /\ last.who = "crb"
    /\ last.err = "AssertionError: common time length"
    /\ last.steps = <<"preprocess", "validate">>
    /\ ~crb.built /\ rng = 0

\* C8: a build() that fails in preprocess, validate or the concrete build
\* leaves the generator's previously built output as it was, and the
\* generator is not Built afterwards.
C8_FailedBuildKeepsOutput ==
    [][/\ BuildStep("crb") /\ last'.err # "ok"
          => /\ crb'.out = crb.out
             /\ last'.steps # <<>> => ~crb'.built
       /\ \A i \in RateIds :
             BuildStep(RateName(i)) /\ last'.err # "ok"
             => /\ rate'[i].out = rate[i].out
                /\ last'.steps # <<>> => ~rate'[i].built]_vars

\* a CombinedRateBuilder that was built, then failed in its concrete build:
\* the earlier output is still there and the builder is not Built
C8_Witness ==
    /\ last.op = "build" /\ last.who = "crb"
    /\ last.err = "ValueError: hist eq"
    /\ crb.out # EmptyOut /\ ~crb.built


\* every repeat instance names a stored child; end of instance ri
RepeatsKnown == \A ri \in csb.repeat : ri[2] \in DOMAIN csb.builders
RepeatEnd(ri) == ri[1] + Leaf_time_length(csb.builders[ri[2]])

\* two different repeat instances whose intervals [start, end) intersect
RepeatsOverlap ==
    \E ri, rj \in csb.repeat :
        ri # rj /\ ri[1] < RepeatEnd(rj) /\ rj[1] < RepeatEnd(ri)

CsbCommonStepsize ==
    \A u, w \in DOMAIN csb.builders :
        Leaf_steps_per_ms(csb.builders[u]) = Leaf_steps_per_ms(csb.builders[w])

\* C9: build() of a RepeaterSpikeBuilder fails with the validation error
\* 'constituent spike builders must correspond to disjoint intervals'
\* whenever two instances' intervals overlap, and the disjointness check
\* passes when they do not (touching intervals are allowed).
C9_OverlapFailsValidation ==
    [][BuildStep("csb") /\ ~csb.frozen /\ RepeatsKnown /\ CsbCommonStepsize
          => IF RepeatsOverlap
             THEN last'.err = "AssertionError: disjoint intervals"
             ELSE last'.err # "AssertionError: disjoint intervals"]_vars

\* C9 (without a child named 'filler'): the same statement
C9_OverlapFailsWithoutFiller ==
    [][(/\ BuildStep("csb") /\ ~csb.frozen /\ RepeatsKnown /\ CsbCommonStepsize
        /\ "filler" \notin DOMAIN csb.names)
          => IF RepeatsOverlap
             THEN last'.err = "AssertionError: disjoint intervals"
             ELSE last'.err # "AssertionError: disjoint intervals"]_vars

\* time_length was last set through the setter, to given.T.v
ExplicitT == given.T.set

FinalIntervals == [k \in DOMAIN csb.final |->
                     <<csb.final[k].st, csb.final[k].st + Leaf_time_length(csb.final[k])>>]

\* C12: with a child named 'filler' and n pairwise disjoint repeat instances,
\* preprocessing creates exactly one filler per gap between consecutive
\* placed intervals (sorted by start), starting at the end of the earlier
\* interval and as long as the gap, so that placed and filler intervals cover
\* [first start, last end) with no overlap and no uncovered time.
C12_FillersCoverGaps ==
    (/\ csb.pre /\ "filler" \in DOMAIN csb.names
     /\ csb.repeat # {} /\ RepeatsKnown /\ ~RepeatsOverlap)
       => LET sorted == SortedPairs(csb.repeat)
              n == Len(sorted)
              iv == FinalIntervals
          IN /\ Len(csb.final) = n + (n - 1)
             /\ \A k \in 1..n : iv[k] = <<sorted[k][1], RepeatEnd(sorted[k])>>
             /\ \A k \in 1..(n - 1) :
                   iv[n + k] = <<RepeatEnd(sorted[k]), sorted[k + 1][1]>>
             /\ \A t \in sorted[1][1]..(RepeatEnd(sorted[n]) - 1) :
                   Cardinality({k \in DOMAIN iv : iv[k][1] <= t /\ t < iv[k][2]}) = 1

\* two instances with a real gap between them and a filler in it
C12_Witness ==
    /\ csb.pre /\ "filler" \in DOMAIN csb.names /\ RepeatsKnown
    /\ Cardinality(csb.repeat) = 2 /\ Len(csb.final) = 3
    /\ Leaf_time_length(csb.final[3]) > 0


\* draws one build of a leaf spike builder takes from the random source
LeafDraws(s) == (IF s.kind = "ratebased" THEN Rate_draws(s.rb) ELSE 0) + 1

\* draws taken by the builders before position k of the list
RECURSIVE DrawsBefore(_, _)
DrawsBefore(final, k) ==
    IF k <= 1 THEN 0 ELSE DrawsBefore(final, k - 1) + LeafDraws(final[k - 1])

\* C13: a successful build of a RepeaterSpikeBuilder rebuilds every repeat
\* instance exactly once, one after another in ascending order of
\* (start_time, child id): the k-th instance of that order is built from the
\* shared random source as the builds before it left it, so two instances of
\* one child take separate draws, and the source ends advanced by the draws
\* of all rebuilt builders.
C13_RebuildInOrder ==
    [][BuildStep("csb") /\ last'.err = "ok"
          => LET sorted == SortedPairs(csb.repeat)
                 n == Len(sorted)
                 f == csb'.final
             IN /\ Len(f) >= n
                /\ \A k \in 1..n :
                      f[k] = copy_rebuilt(Placed(csb.builders[sorted[k][2]], sorted[k][1]),
                                          (rng + DrawsBefore(f, k)) % RngMod).g
                /\ \A j, k \in 1..n : j < k => DrawsBefore(f, j) < DrawsBefore(f, k)
                /\ rng' = (rng + DrawsBefore(f, Len(f) + 1)) % RngMod]_vars

\* a successful build with two instances of the same child whose outputs differ
C13_Witness ==
    /\ last.op = "build" /\ last.who = "csb" /\ last.err = "ok"
    /\ \E ri, rj \in csb.repeat : ri[2] = rj[2] /\ ri[1] < rj[1]
    /\ Len(csb.final) >= 2
    /\ csb.final[1].out # csb.final[2].out


\* sum over the first k builders of the list of their weights on channel c at
\* absolute step p
RECURSIVE SumAt(_, _, _, _)
SumAt(list, k, c, p) ==
    IF k = 0 THEN 0 ELSE SumAt(list, k - 1, c, p) + Leaf_weight_at(list[k], c, p)

\* the output of composite g has a row for every channel of the listed
\* builders, each row is the sum of the builders' outputs, each at its own
\* start step counted from step base, and the sparse arrays list exactly the
\* steps with a non-zero sum
MergedFrom(g, list, base) ==
    /\ Len(g.out) = Len(g.ch)
    /\ UNION {Range(Leaf_channels(list[k])) : k \in DOMAIN list} \subseteq Range(g.ch)
    /\ \A i \in DOMAIN g.ch :
          /\ Len(g.out[i]) = g.steps_length
          /\ \A s \in 0..(g.steps_length - 1) :
                /\ g.out[i][s + 1] = SumAt(list, Len(list), g.ch[i], s + base)
                /\ (\E k \in DOMAIN spike_rel_step_array(g)[i] :
                       spike_rel_step_array(g)[i][k] = s)
                   <=> SumAt(list, Len(list), g.ch[i], s + base) # 0

SsbSeparateChannels(c) ==
    LET kids == Ssb_children(c)
    IN /\ Len(kids) >= 2
       /\ \A j, k \in DOMAIN kids :
             /\ j # k => Range(Leaf_channels(kids[j])) \cap Range(Leaf_channels(kids[k])) = {}
             /\ Leaf_steps_per_ms(kids[j]) = Leaf_steps_per_ms(kids[k])
             /\ Leaf_time_length(kids[j]) = Leaf_time_length(kids[k])
             /\ kids[j].st = kids[k].st

\* C15: when the children of a composite have pairwise disjoint channel sets
\* and the same resolution, duration and start, the merged output equals, per
\* channel, the output of the one child that owns the channel.
C15_DisjointChannelsUnchanged ==
    [][(BuildStep("ssb") /\ last'.err = "ok" /\ SsbSeparateChannels(ssb'))
          => LET kids == Ssb_children(ssb')
             IN /\ Range(ssb'.ch) = UNION {Range(Leaf_channels(kids[k])) : k \in DOMAIN kids}
                /\ \A k \in DOMAIN kids : \A j \in DOMAIN Leaf_channels(kids[k]) :
                      LET i == IndexOf(ssb'.ch, Leaf_channels(kids[k])[j])
                      IN /\ ssb'.out[i] = kids[k].out[j]
                         /\ spike_rel_step_array(ssb')[i] = spike_rel_step_array(kids[k])[j]
                         /\ spike_weight_array(ssb')[i] = spike_weight_array(kids[k])[j]]_vars

\* a built composite of two children on separate channels, one of which spikes
C15_Witness ==
    /\ last.op = "build" /\ last.who = "ssb" /\ last.err = "ok"
    /\ SsbSeparateChannels(ssb)
    /\ \E i \in DOMAIN ssb.out : spike_rel_step_array(ssb)[i] # <<>>


\* the sparse output of g is well formed
SparseOk(g) ==
    \A i \in DOMAIN g.out :
        LET steps == spike_rel_step_array(g)[i]
            weights == spike_weight_array(g)[i]
        IN /\ Len(weights) = Len(steps)
           /\ \A k \in DOMAIN steps : steps[k] \in Nat
           /\ \A k \in 1..(Len(steps) - 1) : steps[k] < steps[k + 1]
           /\ \A k \in DOMAIN weights : weights[k] \in Nat /\ weights[k] > 0

\* C16: in every built spike generator, per channel, the relative step
\* indices are strictly ascending, the weight list has the same length as
\* the step list, and every weight is a positive integer.
C16_SparseWellFormed ==
    /\ \A i \in SpikeIds : spk[i].built => SparseOk(spk[i])
    /\ csb.built => SparseOk(csb) /\ \A k \in DOMAIN csb.final : SparseOk(csb.final[k])
    /\ ssb.built => SparseOk(ssb) /\ \A n \in DOMAIN ssb.builders : SparseOk(ssb.builders[n])

\* a built composite with a channel that lists two steps
C16_Witness ==
    /\ ssb.built
    /\ \E i \in DOMAIN ssb.out : Len(spike_rel_step_array(ssb)[i]) >= 2


\* the output of spike generator g has one row per channel and every listed
\* relative step lies below steps_length
SpikeShapeOk(g, channels, steps_length) ==
    /\ Len(g.out) = Len(channels)
    /\ \A i \in DOMAIN g.out : Len(g.out[i]) = steps_length
    /\ \A i \in DOMAIN g.out : \A k \in DOMAIN spike_rel_step_array(g)[i] :
          spike_rel_step_array(g)[i][k] < steps_length

\* the output of a rate generator is an array with one row per channel
RateShapeOk(g) == ~g.out.scalar /\ Len(g.out.arr) = Len(g.ch)

\* C17 (every generator but ConstRateBuilder and combinations of them only):
\* in every Built state the output has one row per channel and, for spike
\* generators, every relative step index is below the steps_length of the
\* current parameters.
C17_OtherBuiltShape ==
    /\ \A i \in SpikeIds :
          spk[i].built => SpikeShapeOk(spk[i], Leaf_channels(spk[i]), Leaf_steps_length(spk[i]))
    /\ csb.built => SpikeShapeOk(csb, csb.ch, csb.steps_length)
    /\ ssb.built => SpikeShapeOk(ssb, ssb.ch, ssb.steps_length)
    /\ \A i \in RateIds : rate[i].built /\ rate[i].kind # "const" => RateShapeOk(rate[i])
    /\ (crb.built /\ \E k \in DOMAIN crb.children : rate[crb.children[k]].kind # "const")
          => RateShapeOk(crb)

\* C17: in every Built state of any generator the first dimension of the
\* output equals the number of channels, and for spike generators every
\* relative step index is below steps_length.
C17_BuiltShape ==
    /\ \A i \in RateIds : rate[i].built => RateShapeOk(rate[i])
    /\ crb.built => RateShapeOk(crb)
    /\ \A i \in SpikeIds :
          spk[i].built => SpikeShapeOk(spk[i], Leaf_channels(spk[i]), Leaf_steps_length(spk[i]))
    /\ csb.built => SpikeShapeOk(csb, csb.ch, csb.steps_length)
    /\ ssb.built => SpikeShapeOk(ssb, ssb.ch, ssb.steps_length)


\* the SuperimposeSpikeBuilder ran its preprocessing in this step
SsbPreprocessStep ==
    \/ BuildStep("ssb") /\ Len(last'.steps) >= 1
    \/ /\ ReadStep({"spike_builders"}) /\ last'.who = "ssb" /\ last'.err = "ok"
       /\ ~ssb.pre

\* C18: after preprocessing a SuperimposeSpikeBuilder with at least one
\* child, its start_time is the least of the children's start times and its
\* time_length is the greatest start + time_length minus that least start.
C18_DerivedStartAndLength ==
    [][(SsbPreprocessStep /\ ssb'.order # <<>>)
          => LET kids == Ssb_children(ssb')
                 starts == {kids[k].st : k \in DOMAIN kids}
                 ends == {kids[k].st + Leaf_time_length(kids[k]) : k \in DOMAIN kids}
             IN /\ ssb'.pre
                /\ \A t \in starts : ssb'.st <= t
                /\ ssb'.st \in starts
                /\ \A e \in ends : e - ssb'.st <= ssb'.tl
                /\ \E e \in ends : e - ssb'.st = ssb'.tl]_vars

\* a preprocessed builder with two children that start at different times,
\* none of them at 0
C18_Witness ==
    /\ last.op = "build" /\ last.who = "ssb" /\ Len(last.steps) >= 1
    /\ Len(ssb.order) = 2
    /\ ssb.builders[ssb.order[1]].st # ssb.builders[ssb.order[2]].st
    /\ ssb.st > 0


CrbValidationErrors ==
    {"AssertionError: common time length", "AssertionError: common step size"}

CrbChildUnreadable ==
    \E k \in DOMAIN crb.children :
        rate[crb.children[k]].frozen /\ ~rate[crb.children[k]].pre

ListsExactly(seq, S) ==
    /\ Range(seq) = S
    /\ \A k \in 1..(Len(seq) - 1) : seq[k] < seq[k + 1]

\* seq lists exactly the members of S, each once
ListsOnce(seq, S) ==
    /\ Range(seq) = S
    /\ Len(seq) = Cardinality(S)

\* the CombinedRateBuilder ran its preprocessing in this step
CrbPreprocessStep ==
    \/ BuildStep("crb") /\ Len(last'.steps) >= 1
    \/ /\ ReadStep({"time_len_in_steps"}) /\ last'.who = "crb" /\ last'.err = "ok"
       /\ ~crb.pre

\* C21: after preprocessing a composite with at least one child its channels
\* are exactly the union of the channels of its children (Repeater: of the
\* builders placed, fillers included), so every channel of every merged child
\* has a row in the composite's channel-to-row map.
C21_ChannelsAreUnion ==
    [][/\ (BuildStep("csb") /\ Len(last'.steps) >= 1 /\ csb'.pre /\ csb'.final # <<>>)
             => ListsExactly(csb'.ch, UNION {Range(Leaf_channels(csb'.final[k])) :
                                                k \in DOMAIN csb'.final})
       /\ (SsbPreprocessStep /\ ssb'.order # <<>>)
             => ListsExactly(ssb'.ch, UNION {Range(Leaf_channels(ssb'.builders[n])) :
                                                n \in DOMAIN ssb'.builders})
       /\ (CrbPreprocessStep /\ crb'.children # <<>>)
             => ListsOnce(crb'.ch, UNION {Range(rate'[crb'.children[k]].ch) :
                                             k \in DOMAIN crb'.children})]_vars

\* a preprocessed Repeater whose placed builders, a filler among them, have
\* different channel sets
C21_Witness ==
    /\ last.op = "build" /\ last.who = "csb" /\ csb.pre
    /\ Len(csb.final) = 3
    /\ \E j, k \in DOMAIN csb.final :
          Leaf_channels(csb.final[j]) # Leaf_channels(csb.final[k])


\* the value of built rate generator g at channel c and step t (1-based), 0
\* for a channel g does not have
RateValueAt(g, c, t) ==
    IF c \notin Range(g.ch) THEN 0
    ELSE IF g.out.scalar THEN g.out.val
    ELSE g.out.arr[IndexOf(g.ch, c)][t]

\* sum of the values of the first k children of the CombinedRateBuilder after
\* the step
RECURSIVE ChildrenSumAt(_, _, _)
ChildrenSumAt(k, c, t) ==
    IF k = 0 THEN 0
    ELSE ChildrenSumAt(k - 1, c, t) + RateValueAt(rate'[crb'.children[k]], c, t)

\* the output of the CombinedRateBuilder after the step at row i and step t;
\* a scalar output stands for that value in every cell
CrbOutAt(i, t) == IF crb'.out.scalar THEN crb'.out.val ELSE crb'.out.arr[i][t]

\* C22: with the default sum transform the output of a built
\* CombinedRateBuilder at (channel c, step t) is the sum over all children of
\* the child's value at (c, t), a child contributing 0 for a channel it does
\* not have.
C22_OutputIsSumOfChildren ==
    [][(BuildStep("crb") /\ last'.err = "ok" /\ crb'.children # <<>>)
          => \A i \in DOMAIN crb'.ch : \A t \in 1..crb'.steps_length :
                CrbOutAt(i, t) = ChildrenSumAt(Len(crb'.children), crb'.ch[i], t)]_vars

\* C22 (no ConstRateBuilder among the children): the same statement, and the
\* output is an array with one row per channel
C22_SumOfArrayChildren ==
    [][(/\ BuildStep("crb") /\ last'.err = "ok" /\ crb'.children # <<>>
        /\ \A k \in DOMAIN crb'.children : rate'[crb'.children[k]].kind # "const")
          => /\ ~crb'.out.scalar
             /\ Len(crb'.out.arr) = Len(crb'.ch)
             /\ \A i \in DOMAIN crb'.ch : \A t \in 1..crb'.steps_length :
                   CrbOutAt(i, t) = ChildrenSumAt(Len(crb'.children), crb'.ch[i], t)]_vars


\* a set-channels call on the mutable rate generator / leaf spike generator
RateChannelsCall(S) ==
    /\ focus = "rate" /\ ~rate[1].frozen
    /\ last'.op = "set_channels"
    /\ last'.err = Rate_set_channels(rate[1], S).err
    /\ rate'[1] = Rate_set_channels(rate[1], S).g
SpkChannelsCall(S) ==
    /\ focus = "leaf" /\ ~spk[1].frozen
    /\ last'.op = "set_channels"
    /\ last'.err = Leaf_set_channels(spk[1], S).err
    /\ spk'[1] = Leaf_set_channels(spk[1], S).g

\* C23: for every collection of non-negative integers given as channels to a
\* generator the stored channels are strictly ascending and are exactly the
\* distinct input values; an input with a negative value is rejected with an
\* error and leaves the stored channels unchanged.
C23_ChannelsCanonical ==
    [][\A S \in ChanVals :
          /\ RateChannelsCall(S) =>
                IF \A c \in S : c >= 0
                THEN last'.err = "ok" /\ ListsExactly(rate'[1].ch, S)
                ELSE last'.err # "ok" /\ rate'[1].ch = rate[1].ch
          /\ SpkChannelsCall(S) =>
                IF \A c \in S : c >= 0
                THEN last'.err = "ok" /\ ListsExactly(Leaf_channels(spk'[1]), S)
                ELSE last'.err # "ok" /\ Leaf_channels(spk'[1]) = Leaf_channels(spk[1])]_vars

\* C23 (rate generators, order left aside): the stored channels are exactly
\* the distinct input values, each once, and an input with a negative value
\* is rejected with ValueError and leaves the stored channels unchanged.
C23_RateChannelsDistinct ==
    [][\A S \in ChanVals :
          RateChannelsCall(S) =>
             IF \A c \in S : c >= 0
             THEN last'.err = "ok" /\ ListsOnce(rate'[1].ch, S)
             ELSE last'.err = "ValueError" /\ rate'[1].ch = rate[1].ch]_vars

\* C23 (ConstRateSpikeBuilder, -1 left aside): non-negative channels are
\* stored ascending and deduplicated, a value below -1 is rejected and leaves
\* the stored channels unchanged.
C23_SpikeChannelsSorted ==
    [][\A S \in ChanVals :
          (SpkChannelsCall(S) /\ spk[1].kind = "constspike" /\ -1 \notin S) =>
             IF \A c \in S : c >= 0
             THEN last'.err = "ok" /\ ListsExactly(spk'[1].ch, S)
             ELSE last'.err = "AssertionError" /\ spk'[1].ch = spk[1].ch]_vars


\* an assignment to a derived identity attribute of a composite
DerivedSetStep ==
    /\ last'.who \in {"crb", "csb", "ssb"}
    /\ last'.op \in {"channels", "steps_per_ms", "time_length"}

RateBasedSetStep(op) ==
    /\ focus = "leaf" /\ spk[1].kind = "ratebased"
    /\ last'.who = SpikeName(1) /\ last'.op = op /\ last'.err = "ok"

\* the stored rate generator after the step is a frozen copy of the one before
\* that differs at most in its steps_per_ms, time_length, channels as allowed
StoredCopyDiffers(spmFree, tlFree, chFree) ==
    /\ spk'[1].rb.frozen
    /\ spk'[1].rb.kind = spk[1].rb.kind /\ spk'[1].rb.param = spk[1].rb.param
    /\ spmFree \/ spk'[1].rb.spm = spk[1].rb.spm
    /\ tlFree \/ Rate_time_length(spk'[1].rb) = Rate_time_length(spk[1].rb)
    /\ chFree \/ spk'[1].rb.ch = spk[1].rb.ch

\* C25: a RateBasedSpikeBuilder reads steps_per_ms, time_length and channels
\* as the stored rate generator's values; setting one of them to v replaces
\* the stored rate generator by a frozen copy that differs only in that
\* attribute, now v, and leaves the rate generator the caller passed unchanged.
C25_ForwardedToFrozenCopy ==
    [][/\ \A v \in ResVals : (RateBasedSetStep("set_steps_per_ms") /\ SpkSetStepsPerMs(1, v))
             => /\ Leaf_steps_per_ms(spk'[1]) = v
                /\ StoredCopyDiffers(TRUE, FALSE, FALSE)
                /\ rate' = rate
       /\ \A v \in TimeVals : (RateBasedSetStep("set_time_length") /\ SpkSetTimeLength(1, v))
             => /\ Leaf_time_length(spk'[1]) = v
                /\ StoredCopyDiffers(FALSE, TRUE, FALSE)
                /\ rate' = rate
       /\ \A S \in ChanVals : (RateBasedSetStep("set_channels") /\ SpkSetChannels(1, S))
             => /\ Range(Leaf_channels(spk'[1])) = S
                /\ StoredCopyDiffers(FALSE, FALSE, TRUE)
                /\ rate' = rate]_vars

\* C25 (stored rate generator other than a ConstRateBuilder): the same
\* statement, for rate generators whose time_length reads as the value set.
C25_ForwardedBaseRate ==
    [][spk[1].rb.kind # "const" =>
         /\ \A v \in ResVals : (RateBasedSetStep("set_steps_per_ms") /\ SpkSetStepsPerMs(1, v))
               => /\ Leaf_steps_per_ms(spk'[1]) = v
                  /\ StoredCopyDiffers(TRUE, FALSE, FALSE)
                  /\ rate' = rate
         /\ \A v \in TimeVals : (RateBasedSetStep("set_time_length") /\ SpkSetTimeLength(1, v))
               => /\ Leaf_time_length(spk'[1]) = v
                  /\ StoredCopyDiffers(FALSE, TRUE, FALSE)
                  /\ rate' = rate
         /\ \A S \in ChanVals : (RateBasedSetStep("set_channels") /\ SpkSetChannels(1, S))
               => /\ Range(Leaf_channels(spk'[1])) = S
                  /\ StoredCopyDiffers(FALSE, FALSE, TRUE)
                  /\ rate' = rate]_vars


\* build() of rate generator 1 / spike generator 1 succeeded in this step, on
\* a generator still Built from its previous build (no parameter was changed
\* since), with the caller's source in the state that build started from
RateRebuiltFromSameSeed ==
    /\ focus = "seeded"
    /\ last'.op = "build" /\ last'.who = RateName(1) /\ last'.err = "ok"
    /\ rate[1].built /\ given.from[RateName(1)] = own
SpkRebuiltFromSameSeed ==
    /\ focus = "seeded"
    /\ last'.op = "build" /\ last'.who = SpikeName(1) /\ last'.err = "ok"
    /\ spk[1].built /\ given.from[SpikeName(1)] = own

\* C26: two build() calls of a generator with no parameter change in between,
\* each started with the injected random source in the same seeded state,
\* yield identical output: the output depends on the parameters and on the
\* state of the injected source only.
C26_RebuildReproducible ==
    [][/\ RateRebuiltFromSameSeed => rate'[1].out = rate[1].out
       /\ SpkRebuiltFromSameSeed =>
             /\ spk'[1].out = spk[1].out
             /\ spk[1].kind = "ratebased" => spk'[1].rb.out = spk[1].rb.out]_vars

\* C26 (generators all of whose draws come from the injected source: the
\* LegacyRateBuilder, the ConstRateSpikeBuilder, the RateBasedSpikeBuilder
\* holding one of these): the same statement.
C26_InjectedReproducible ==
    [][/\ (RateRebuiltFromSameSeed /\ Rate_source(rate[1]) = "own")
             => rate'[1].out = rate[1].out
       /\ (SpkRebuiltFromSameSeed
             /\ (spk[1].kind = "ratebased" => Rate_source(spk[1].rb) = "own"))
             => /\ spk'[1].out = spk[1].out
                /\ spk[1].kind = "ratebased" => spk'[1].rb.out = spk[1].rb.out]_vars


HoldsOwnSource ==
    /\ focus = "seeded"
    /\ rate[1].kind = "legacy" /\ rate[1].src = "own" /\ spk[1].src = "own"
    /\ spk[1].kind = "ratebased"

LegacyBuilt ==
    /\ focus = "seeded" /\ rate[1].kind = "legacy"
    /\ last'.op = "build" /\ last'.who = RateName(1) /\ last'.err = "ok"

\* C29: whenever a LegacyRateBuilder builds successfully its parameters
\* satisfy 0 < theta < steps_per_ms, sigma > 0, max_rate > 0 and stored
\* delay > 0, after any order of setter calls (a change of steps_per_ms after
\* theta included); a violating value is rejected with ValueError at
\* assignment or at validate(), never later.
C29_LegacyParamsValid ==
    [][LegacyBuilt =>
          /\ 0 < rate'[1].theta /\ rate'[1].theta < Ms(rate'[1].spm)
          /\ rate'[1].sigma > 0 /\ rate'[1].max_rate > 0
          /\ rate'[1].delay > 0]_vars

\* C29 (theta alone): a built LegacyRateBuilder has 0 < theta < steps_per_ms.
C29_ThetaBelowStepsPerMs ==
    [][LegacyBuilt => 0 < rate'[1].theta /\ rate'[1].theta < Ms(rate'[1].spm)]_vars

\* C29 (what the setters do guarantee): a built LegacyRateBuilder has
\* theta > 0, sigma > 0 and max_rate > 0, and an assignment of a value that
\* is not positive to sigma, theta, delay or max_rate ends in ValueError and
\* changes nothing.
C29_PositiveParams ==
    [][/\ LegacyBuilt => rate'[1].theta > 0 /\ rate'[1].sigma > 0 /\ rate'[1].max_rate > 0
       /\ (focus = "seeded" /\ ~rate[1].frozen
              /\ last'.op \in {"set_sigma", "set_theta", "set_delay", "set_max_rate"}
              /\ (LegSetSigma(0) \/ LegSetTheta(0) \/ LegSetDelay(0) \/ LegSetMaxRate(0)))
             => last'.err = "ValueError" /\ rate' = rate]_vars


\* superimpose.start_time = v was called in this step
SsbStartTimeStep(v) ==
    /\ focus = "superimpose"
    /\ last'.op = "set_start_time" /\ last'.who = "ssb"
    /\ last'.err = Ssb_set_start_time(ssb, v).err
    /\ ssb' = Ssb_set_start_time(ssb, v).g

\* every stored child moved by the same offset, the earliest one to v
SsbShiftedTo(v) ==
    /\ DOMAIN ssb'.builders = DOMAIN ssb.builders
    /\ ssb.order # <<>> =>
          SetMin({ssb'.builders[n].st : n \in DOMAIN ssb'.builders}) = v
    /\ \A a, b \in DOMAIN ssb.builders :
          ssb'.builders[a].st - ssb'.builders[b].st = ssb.builders[a].st - ssb.builders[b].st
    /\ \A a \in DOMAIN ssb.builders :
          /\ LeafIdent(ssb'.builders[a]) = LeafIdent(ssb.builders[a])
          /\ ssb'.builders[a].kind = ssb.builders[a].kind
          /\ ssb'.builders[a].param = ssb.builders[a].param

SsbStartCurrent ==
    (ssb.pre /\ ssb.order # <<>>) =>
        ssb.st = SetMin({ssb.builders[n].st : n \in DOMAIN ssb.builders})

CrbTimeLengthStep ==
    /\ focus = "combrate" /\ ops' # ops
    /\ last'.op = "set_time_length" /\ last'.who = "crb"
    /\ ~crb.frozen /\ crb.children # <<>>

\* build() of the CombinedRateBuilder directly after a successful
\* time_length = given.T.v on it
CrbBuildAfterTimeLength ==
    /\ focus = "combrate" /\ BuildStep("crb")
    /\ last.op = "set_time_length" /\ last.who = "crb" /\ last.err = "ok"
    /\ ~crb.frozen /\ crb.children # <<>>

CrbChildrenShareStepsPerMs ==
    \A j, k \in DOMAIN crb.children :
        rate[crb.children[j]].spm = rate[crb.children[k]].spm

\* C31 (as stated): time_length = t (t >= 0) on a CombinedRateBuilder with
\* children sets the time_length of every child to t; the next build passes
\* the common-time-length validation and leaves the composite and all its
\* children with time_length t.
C31_TimeLengthForwarded ==
    [][/\ (CrbTimeLengthStep /\ last'.arg >= 0)
             => /\ last'.err = "ok"
                /\ \A k \in DOMAIN crb.children : rate'[crb.children[k]].tl = last'.arg
       /\ CrbBuildAfterTimeLength
             => /\ last'.err # "AssertionError: common time length"
                /\ crb'.tl = last.arg
                /\ \A k \in DOMAIN crb.children :
                      Rate_time_length(rate'[crb.children[k]]) = last.arg]_vars

\* a child of the CombinedRateBuilder is frozen
CrbChildFrozen == \E k \in DOMAIN crb.children : rate[crb.children[k]].frozen

\* no child of the CombinedRateBuilder is a ConstRateBuilder
CrbNoConstChild ==
    \A k \in DOMAIN crb.children : rate[crb.children[k]].kind # "const"

\* C31 (children that are not frozen; for the build, children that agree on
\* steps_per_ms and none of which is a ConstRateBuilder): time_length = t
\* (t >= 0) stores t as the time_length of every child and changes no other
\* parameter of a child, and with a frozen child the call fails with
\* FrozenError; the build that follows passes validation, and after it the
\* composite and every child have round(t * steps_per_ms) steps and read
\* time_length t.
C31_ForwardedToArrayChildren ==
    [][/\ (CrbTimeLengthStep /\ last'.arg >= 0)
             => IF CrbChildFrozen
                THEN last'.err = "FrozenError" /\ crb' = crb
                ELSE /\ last'.err = "ok"
                     /\ \A k \in DOMAIN crb.children :
                           LET a == rate[crb.children[k]]
                               b == rate'[crb.children[k]]
                           IN /\ b.tl = last'.arg
                              /\ Ident(b) = [Ident(a) EXCEPT !.tl = last'.arg]
                              /\ ~b.built
                     /\ \A i \in RateIds :
                           (~\E k \in DOMAIN crb.children : crb.children[k] = i)
                              => rate'[i] = rate[i]
       /\ (CrbBuildAfterTimeLength /\ CrbChildrenShareStepsPerMs /\ CrbNoConstChild)
             => /\ last'.steps = <<"preprocess", "validate", "build">>
                /\ last'.err \in {"ok", "ValueError: hist eq"}
                /\ crb'.steps_length = Round(last.arg, crb'.spm)
                /\ crb'.tl = last.arg
                /\ \A k \in DOMAIN crb.children :
                      LET b == rate'[crb.children[k]]
                      IN /\ b.built /\ b.tl = last.arg
                         /\ b.steps_length = crb'.steps_length
                         /\ Rate_time_length(b) = last.arg]_vars

\* a ConstRateBuilder built with 1 ms was added, the composite was given
\* 1.5 ms and built: the composite reads 1 ms and has one step, its child two
C31_StaleComposite ==
    /\ focus = "combrate"
    /\ last.op = "build" /\ last.who = "crb" /\ last.err = "ok"
    /\ given.T.set /\ given.T.v = Ms(1) + HalfMs
    /\ Len(crb.children) = 1 /\ crb.built
    /\ rate[crb.children[1]].kind = "const"
    /\ rate[crb.children[1]].tl = Ms(1) + HalfMs
    /\ rate[crb.children[1]].steps_length = 2
    /\ crb.tl = Ms(1) /\ crb.steps_length = 1


\* preprocess() of builder who succeeded in the last call and is called again
\* in this step, nothing in between
PreprocessAgain(who) ==
    /\ ops' # ops
    /\ last.op = "preprocess" /\ last.who = who /\ last.err = "ok"
    /\ last'.op = "preprocess" /\ last'.who = who

\* C32: preprocess() is idempotent: a second call with no setter call in
\* between leaves every derived quantity (steps_length, the derived channels,
\* steps_per_ms, time_length and start_time, the Repeater's list of placed
\* and filler builders) as the first call left it; so does running the
\* preprocessing step twice from any state.
C32_PreprocessIdempotent ==
    [][/\ \A i \in RateIds : PreprocessAgain(RateName(i)) => rate'[i] = rate[i]
       /\ PreprocessAgain("crb") => crb' = crb
       /\ PreprocessAgain("csb") => last'.err = "ok" /\ csb' = csb
       /\ PreprocessAgain("ssb") => ssb' = ssb
       /\ \A i \in RateIds :
             Rate_preprocess(Rate_preprocess(rate[i])) = Rate_preprocess(rate[i])
       /\ Crb_preprocess(Crb_preprocess(crb, rate), rate) = Crb_preprocess(crb, rate)
       /\ Ssb_preprocess(Ssb_preprocess(ssb)) = Ssb_preprocess(ssb)
       /\ Csb_preprocess(csb).err = "ok"
             => Csb_preprocess(Csb_preprocess(csb).g) = Csb_preprocess(csb)]_vars

\* a RepeaterSpikeBuilder with two placed builders and the filler between
\* them, its time length derived, after two preprocess() calls in a row
C32_Witness ==
    /\ focus = "repeater"
    /\ last.op = "preprocess" /\ last.who = "csb" /\ last.err = "ok"
    /\ given.pp = 2
    /\ csb.pre /\ ~csb.tl_assigned
    /\ Cardinality(csb.repeat) = 2 /\ Len(csb.final) = 3
    /\ csb.tl = Ms(3) /\ csb.steps_length = 3


\* ---------------------------------------------------------------------------
\* C33: identifying numbers of the children of a CombinedSpikeBuilder

\* the step is a successful add_spike_builder on the composite
CsbAddStep ==
    ops' # ops /\ last'.who = "csb" /\ last'.op = "add_spike_builder" /\ last'.err = "ok"

\* C33 (as stated): the counter grows by one on every successful add and never
\* decreases, a successful add stores the child under a number that was not in
\* the children table and leaves every stored entry as it was, and every key of
\* the children table is smaller than buildercount
C33_AddNeverReplaces ==
    [][/\ csb'.last_count >= csb.last_count
       /\ (CsbAddStep =>
             /\ csb'.last_count = csb.last_count + 1
             /\ csb.last_count \notin DOMAIN csb.builders
             /\ \A u \in DOMAIN csb.builders :
                   u \in DOMAIN csb'.builders /\ csb'.builders[u] = csb.builders[u])
       /\ \A u \in DOMAIN csb'.builders : u < csb'.last_count]_vars

\* C33 (the part about the counter alone): buildercount grows by one on every
\* successful add, which files the child under the old count, and no other
\* call changes it
C33_CounterGrows ==
    [][/\ (CsbAddStep =>
             /\ csb'.last_count = csb.last_count + 1
             /\ csb.last_count \in DOMAIN csb'.builders
             /\ csb'.builders[csb.last_count] = copy_immutable(last'.arg.obj.g))
       /\ (~CsbAddStep => csb'.last_count = csb.last_count)]_vars

\* a child filed by modify_spike_builder under a number no add has returned
C33_KeyBeyondCount ==
    /\ focus = "combspike"
    /\ \E u \in DOMAIN csb.builders : u >= csb.last_count


\* ---------------------------------------------------------------------------
\* C34: the alias map of a CombinedSpikeBuilder

\* update_spike_builder(spike_builder_, id_value): id_value is None ("none"),
\* a string ("name") or a number ("id"); a known name or id modifies, anything
\* else adds with id_value as the name, which add_spike_builder asserts to be
\* a string or None
Csb_update_spike_builder(c, obj, id_value, kind) ==
    IF c.frozen THEN Fail(c, "FrozenError")
    ELSE IF kind = "name" /\ id_value \in DOMAIN c.names
    THEN Csb_modify_spike_builder(c, id_value, TRUE, obj)
    ELSE IF kind = "id" /\ id_value \in DOMAIN c.builders
    THEN Csb_modify_spike_builder(c, id_value, FALSE, obj)
    ELSE IF kind = "id" THEN Fail(c, "AssertionError")
    ELSE Csb_add_spike_builder(c, obj, IF kind = "name" THEN id_value ELSE None)

CsbUpdate(i, id_value, kind) ==
    /\ csb.last_count < MaxIds
    /\ LET res == Csb_update_spike_builder(csb, Spike(spk[i]), id_value, kind)
       IN CsbCall("update_spike_builder", res, [kind |-> kind])
          /\ given' = [given EXCEPT !.csb = CsbGiven(res)]

\* pop_spike_builder(id_val), the call recorded with its argument
CsbPopChild(id_val, byName) ==
    CsbCall("pop_spike_builder", Csb_pop_spike_builder(csb, id_val),
            [id |-> id_val, byName |-> byName]) /\ UNCHANGED given

AliasNames == {"a", "b"}

NextAlias ==
    \/ \E i \in SpikeIds : SpkFreeze(i)
    \/ \E i \in SpikeIds : SpkBuild(i)
    \/ \E i \in SpikeIds, n \in {None} \cup AliasNames : CsbAdd(i, n)
    \/ \E i \in SpikeIds : CsbUpdate(i, None, "none")
    \/ \E i \in SpikeIds, n \in AliasNames : CsbUpdate(i, n, "name")
    \/ \E i \in SpikeIds, u \in 0..MaxIds : CsbUpdate(i, u, "id")
    \/ \E u \in 0..MaxIds, i \in SpikeIds : CsbModifySpike(u, FALSE, i)
    \/ \E n \in AliasNames, i \in SpikeIds : CsbModifySpike(n, TRUE, i)
    \/ \E u \in 0..MaxIds, d \in TimeDicts : CsbModifyDict(u, FALSE, d)
    \/ \E u \in 0..MaxIds : CsbPopChild(u, FALSE)
    \/ \E n \in AliasNames : CsbPopChild(n, TRUE)
    \/ CsbFreeze

InitAlias == Init /\ focus = "combspike"

SpecAlias == InitAlias /\ [][NextAlias]_vars

\* the step is a pop_spike_builder that names a stored child, by number or by
\* an alias
CsbPopStep ==
    /\ ops' # ops /\ last'.who = "csb" /\ last'.op = "pop_spike_builder"
    /\ ~csb.frozen
    /\ IF last'.arg.byName
       THEN last'.arg.id \in DOMAIN csb.names
            /\ csb.names[last'.arg.id] \in DOMAIN csb.builders
       ELSE last'.arg.id \in DOMAIN csb.builders

CsbPopped == IF last'.arg.byName THEN csb.names[last'.arg.id] ELSE last'.arg.id

\* C34 (as stated): after every call each name of the alias map refers to a
\* number that is in the children table, and a pop_spike_builder that names a
\* stored child succeeds, removes that child and every name mapped to it, and
\* leaves every other child and name as it was
C34_NamesAndPop ==
    [][/\ \A n \in DOMAIN csb'.names : csb'.names[n] \in DOMAIN csb'.builders
       /\ (CsbPopStep =>
             /\ last'.err = "ok"
             /\ DOMAIN csb'.builders = DOMAIN csb.builders \ {CsbPopped}
             /\ \A u \in DOMAIN csb'.builders : csb'.builders[u] = csb.builders[u]
             /\ DOMAIN csb'.names = {n \in DOMAIN csb.names : csb.names[n] # CsbPopped}
             /\ \A n \in DOMAIN csb'.names : csb'.names[n] = csb.names[n])]_vars

\* C34 (first half): every name of the alias map refers to a stored child
C34_NamesReferToChildren ==
    \A n \in DOMAIN csb.names : csb.names[n] \in DOMAIN csb.builders

\* C34 (what a pop does): every pop_spike_builder on a builder that is not
\* frozen raises TypeError and removes neither a child nor a name
C34_PopRemovesNothing ==
    [][(ops' # ops /\ last'.who = "csb" /\ last'.op = "pop_spike_builder") =>
          /\ last'.err = IF csb.frozen THEN "FrozenError" ELSE "TypeError"
          /\ csb'.builders = csb.builders
          /\ csb'.names = csb.names
          /\ csb'.last_count = csb.last_count]_vars

\* a pop of child 0, known under two names next to a second child, has failed
C34_PopRefused ==
    /\ focus = "combspike"
    /\ last.who = "csb" /\ last.op = "pop_spike_builder" /\ last.err = "TypeError"
    /\ ~last.arg.byName /\ last.arg.id = 0
    /\ DOMAIN csb.builders = {0, 1}
    /\ \E n \in DOMAIN csb.names : csb.names[n] = 0


\* ---------------------------------------------------------------------------
\* C35: pop_repeat_instance(start_time, sb_id_val)

\* the instances that pass the filters of pop_repeat_instance: hasStart tells
\* whether start_time is given, idKind whether sb_id_val is missing ("none"),
\* a number ("id") or a name ("name")
Csb_pop_matching(c, hasStart, start, idKind, id_val) ==
    {ri \in c.repeat :
        /\ hasStart => ri[1] = start
        /\ idKind # "none" =>
              ri[2] = (IF idKind = "name" THEN c.names[id_val] ELSE id_val)}

\* pop_repeat_instance: with neither argument the method set.pop is taken but
\* not called and the set is stored back as it was; otherwise ri, the head of
\* the filtered list, is removed and returned
Csb_pop_repeat(c, hasStart, start, idKind, id_val, ri) ==
    IF c.frozen THEN Fail(c, "FrozenError") @@ [val |-> None]
    ELSE IF ~hasStart /\ idKind = "none"
    THEN property_setter("combspike", "repeat_instances", c, Ok(c))
         @@ [val |-> [kind |-> "method", ri |-> <<0, 0>>]]
    ELSE IF idKind = "name" /\ id_val \notin DOMAIN c.names
    THEN Fail(c, "KeyError") @@ [val |-> None]
    ELSE IF Csb_pop_matching(c, hasStart, start, idKind, id_val) = {}
    THEN Fail(c, "KeyError") @@ [val |-> None]
    ELSE property_setter("combspike", "repeat_instances", c,
                         Ok([c EXCEPT !.repeat = @ \ {ri}]))
         @@ [val |-> [kind |-> "instance", ri |-> ri]]

\* the instances one of which heads the filtered list
Csb_pop_heads(c, hasStart, start, idKind, id_val) ==
    IF c.frozen \/ (idKind = "name" /\ id_val \notin DOMAIN c.names) THEN {<<0, 0>>}
    ELSE IF Csb_pop_matching(c, hasStart, start, idKind, id_val) = {} THEN {<<0, 0>>}
    ELSE Csb_pop_matching(c, hasStart, start, idKind, id_val)

CsbPopRepeatBy(hasStart, start, idKind, id_val) ==
    /\ Budget
    /\ \E ri \in Csb_pop_heads(csb, hasStart, start, idKind, id_val) :
          LET res == Csb_pop_repeat(csb, hasStart, start, idKind, id_val, ri)
          IN /\ csb' = res.g
             /\ last' = [Call("pop_repeat_instance", "csb", res.err) EXCEPT
                            !.arg = [hasStart |-> hasStart, start |-> start,
                                     idKind |-> idKind, id |-> id_val],
                            !.val = res.val]
             /\ dirty' = IF res.err = "ok" THEN [dirty EXCEPT !["csb"] = TRUE] ELSE dirty
    /\ UNCHANGED <<focus, rate, crb, spk, ssb, rng, own, given>>

NextRepeats ==
    \/ \E i \in SpikeIds : CsbAdd(i, None)
    \/ \E u \in 0..1 : CsbPopChild(u, FALSE)
    \/ \E t \in StartVals, u \in 0..MaxIds : CsbAddRepeat(t, u, FALSE)
    \/ \E t \in StartVals : CsbAddRepeat(t, "a", TRUE)
    \/ CsbPopRepeatBy(FALSE, 0, "none", 0)
    \/ \E t \in StartVals : CsbPopRepeatBy(TRUE, t, "none", 0)
    \/ \E u \in 0..1 : CsbPopRepeatBy(FALSE, 0, "id", u)
    \/ \E n \in AliasNames : CsbPopRepeatBy(FALSE, 0, "name", n)
    \/ \E t \in StartVals, u \in 0..1 : CsbPopRepeatBy(TRUE, t, "id", u)
    \/ \E t \in StartVals : CsbPopRepeatBy(TRUE, t, "name", "a")
    \/ CsbClearRepeat
    \/ CsbPreprocess
    \/ CsbFreeze

InitRepeats == Init /\ focus = "repeater"

SpecRepeats == InitRepeats /\ [][NextRepeats]_vars

\* the step is a pop_repeat_instance on a builder that is not frozen
CsbPopRepeatStep ==
    ops' # ops /\ last'.who = "csb" /\ last'.op = "pop_repeat_instance" /\ ~csb.frozen

\* the instances of the set that match the arguments of the call
CsbPopAsked ==
    IF last'.arg.idKind = "name" /\ last'.arg.id \notin DOMAIN csb.names THEN {}
    ELSE Csb_pop_matching(csb, last'.arg.hasStart, last'.arg.start,
                          last'.arg.idKind, last'.arg.id)

\* exactly one of the matching instances is removed and returned
CsbPopTakesOne ==
    /\ last'.err = "ok"
    /\ last'.val.kind = "instance"
    /\ last'.val.ri \in CsbPopAsked
    /\ csb'.repeat = csb.repeat \ {last'.val.ri}

\* C35 (as stated): when the set holds an instance matching the given
\* start_time and/or child, pop_repeat_instance removes exactly one such
\* instance and returns it; with neither argument any instance matches; when
\* nothing matches it raises KeyError and leaves the set as it was
C35_PopRepeatInstance ==
    [][CsbPopRepeatStep =>
          IF CsbPopAsked # {} THEN CsbPopTakesOne
          ELSE last'.err = "KeyError" /\ csb'.repeat = csb.repeat]_vars

\* C35 (with an argument): the same statement for calls that give a
\* start_time, a child, or both
C35_PopWithArgument ==
    [][(CsbPopRepeatStep /\ (last'.arg.hasStart \/ last'.arg.idKind # "none")) =>
          IF CsbPopAsked # {} THEN CsbPopTakesOne
          ELSE last'.err = "KeyError" /\ csb'.repeat = csb.repeat]_vars

\* C35 (without arguments): the call succeeds, returns the method and removes
\* nothing, whether or not the set is empty
C35_PopWithoutArgument ==
    [][(CsbPopRepeatStep /\ ~last'.arg.hasStart /\ last'.arg.idKind = "none") =>
          /\ last'.err = "ok"
          /\ last'.val.kind = "method"
          /\ csb'.repeat = csb.repeat]_vars

\* a pop without arguments has returned and two instances are still in the set
C35_NothingPopped ==
    /\ focus = "repeater"
    /\ last.who = "csb" /\ last.op = "pop_repeat_instance" /\ last.err = "ok"
    /\ last.val.kind = "method"
    /\ Cardinality(csb.repeat) = 2

\* a pop by start time and child has removed one of two instances
C35_OnePopped ==
    /\ focus = "repeater"
    /\ last.who = "csb" /\ last.op = "pop_repeat_instance" /\ last.err = "ok"
    /\ last.arg.hasStart /\ last.arg.idKind = "id"
    /\ last.val.kind = "instance" /\ last.val.ri = <<Ms(1), 1>>
    /\ csb.repeat = {<<0, 0>>}


\* ---------------------------------------------------------------------------
\* C36: repeat instances and the children table of a RepeaterSpikeBuilder

\* the step is a preprocess() of the RepeaterSpikeBuilder
CsbPreprocessStep ==
    ops' # ops /\ last'.who = "csb" /\ last'.op = "preprocess"

\* C36 (as stated): after every call each repeat instance names a child that
\* is in the children table, and no preprocessing fails looking up a child
C36_RepeatsReferToChildren ==
    [][/\ \A ri \in csb'.repeat : ri[2] \in DOMAIN csb'.builders
       /\ (CsbPreprocessStep => last'.err # "KeyError")]_vars

\* C36 (what preprocessing does): it fails with KeyError exactly when some
\* repeat instance names a number that is not in the children table
C36_MissingChildLookedUp ==
    [][CsbPreprocessStep =>
          (last'.err = "KeyError" <=>
              \E ri \in csb.repeat : ri[2] \notin DOMAIN csb.builders)]_vars

\* an instance naming child 2 of a builder with children 0 and 1 was accepted
\* and the following preprocessing failed on it
C36_DanglingInstance ==
    /\ focus = "repeater"
    /\ DOMAIN csb.builders = {0, 1}
    /\ \E ri \in csb.repeat : ri[2] = 2
    /\ last.who = "csb" /\ last.op = "preprocess" /\ last.err = "KeyError"


\* ---------------------------------------------------------------------------
\* C37: the accumulation index of the SuperimposeSpikeBuilder merge

\* the step is a build() of the composite whose children were all built, so
\* that the merge was run
SsbMergeStep ==
    /\ BuildStep("ssb")
    /\ last'.steps = <<"preprocess", "validate", "build">>
    /\ last'.err \in {"ok", "IndexError"}

\* the accumulation indices of the merge: every event step of every child,
\* counted from the start step of the composite
SsbMergeIndices(c) ==
    {q - c.start_step : q \in UNION {Leaf_spike_steps(c.builders[n]) : n \in DOMAIN c.builders}}

\* the children have the steps_per_ms of the composite
SsbCommonStepsize(c) ==
    \A n \in DOMAIN c.builders : Leaf_steps_per_ms(c.builders[n]) = c.spm

\* start time and time length of every child are whole numbers of steps
SsbWholeSteps(c) ==
    \A n \in DOMAIN c.builders :
        /\ (c.builders[n].st * c.spm) % TimeDen = 0
        /\ (Leaf_time_length(c.builders[n]) * c.spm) % TimeDen = 0

\* C37 (as stated): in every merge the composite's steps_length is
\* round(time_length * steps_per_ms) and every accumulation index lies in
\* [0, steps_length), whatever the start times and durations of the children
C37_IndexInRange ==
    [][SsbMergeStep =>
          /\ ssb'.steps_length = Round(ssb'.tl, ssb'.spm)
          /\ \A x \in SsbMergeIndices(ssb') : 0 <= x /\ x < ssb'.steps_length
          /\ last'.err = "ok"]_vars

\* C37 (whole steps): the same statement for children that share the
\* steps_per_ms of the composite and start and last whole numbers of steps;
\* with a common steps_per_ms alone no index is negative
C37_IndexInRangeWholeSteps ==
    [][SsbMergeStep =>
          /\ ssb'.steps_length = Round(ssb'.tl, ssb'.spm)
          /\ SsbCommonStepsize(ssb') =>
                \A x \in SsbMergeIndices(ssb') : 0 <= x
          /\ (SsbCommonStepsize(ssb') /\ SsbWholeSteps(ssb')) =>
                /\ \A x \in SsbMergeIndices(ssb') : x < ssb'.steps_length
                /\ last'.err = "ok"]_vars

\* two children of one steps_per_ms, one starting half a step late and
\* lasting one and a half steps: its last event falls on index steps_length
C37_IndexPastEnd ==
    /\ focus = "superimpose"
    /\ last.who = "ssb" /\ last.op = "build" /\ last.err = "IndexError"
    /\ SsbCommonStepsize(ssb)
    /\ Cardinality(DOMAIN ssb.builders) = 2
    /\ ssb.steps_length \in SsbMergeIndices(ssb)


\* ---------------------------------------------------------------------------
\* C38: the time bounds check of CombinedSpikeBuilder._build

BoundDicts == {Dict("time_length", HalfMs), Dict("time_length", Ms(1) + HalfMs)}

NextBounds ==
    \/ \E u \in 0..1, d \in BoundDicts : CsbModifyDict(u, FALSE, d)
    \/ \E t \in StartVals, u \in 0..1 : CsbAddRepeat(t, u, FALSE)
    \/ \E v \in {0, Ms(2)} : CsbSetTimeLength(v)
    \/ CsbBuild

InitBounds == Init /\ focus = "repeater"

SpecBounds == InitBounds /\ [][NextBounds]_vars

\* the step is a build() of the composite that got as far as the concrete build
CsbConcreteStep ==
    BuildStep("csb") /\ last'.steps = <<"preprocess", "validate", "build">>

\* the final constituents of c that end after the steps_length of c:
\* start_time * steps_per_ms + steps_length of the constituent, in 1/TimeDen steps
CsbEndingLate(c) ==
    {k \in DOMAIN c.final :
        c.final[k].st * c.spm + Leaf_steps_length(c.final[k]) * TimeDen
            > c.steps_length * TimeDen}

\* C38 (as stated): the concrete build fails with 'not within time bounds'
\* exactly when some final constituent ends after the composite's steps_length
C38_AnyLateFails ==
    [][CsbConcreteStep =>
          (last'.err = "AssertionError: not within time bounds"
              <=> CsbEndingLate(csb') # {})]_vars

\* C38 (what the check does): the concrete build fails with 'not within time
\* bounds' exactly when there are final constituents and every one of them
\* ends after the composite's steps_length
C38_AllLateFails ==
    [][CsbConcreteStep =>
          (last'.err = "AssertionError: not within time bounds"
              <=> (csb'.final # <<>> /\ CsbEndingLate(csb') = DOMAIN csb'.final))]_vars

\* a build has passed the check with two constituents of which the second
\* ends after the composite's steps_length
C38_LatePassed ==
    /\ focus = "repeater"
    /\ last.who = "csb" /\ last.op = "build"
    /\ last.steps = <<"preprocess", "validate", "build">>
    /\ last.err # "AssertionError: not within time bounds"
    /\ Len(csb.final) = 2
    /\ CsbEndingLate(csb) = {2}

\* a build has failed the check: its only constituent ends late
C38_LateFailed ==
    /\ focus = "repeater"
    /\ last.who = "csb" /\ last.op = "build"
    /\ last.err = "AssertionError: not within time bounds"
    /\ Len(csb.final) = 1


\* ---------------------------------------------------------------------------
\* C39: the rate of a ConstRateSpikeBuilder and its channels

RateVecs == {<<2>>, <<0>>, <<-1>>, <<1, 2>>, <<0, 1>>, <<1, -1>>, <<1, 1, 1>>}

NextRates ==
    \/ \E vals \in RateVecs : SpkSetRate(1, vals)
    \/ \E S \in ChanVals : SpkSetChannels(1, S)
    \/ SpkFreeze(1)
    \/ SpkBuild(1)

InitRates == Init /\ focus = "leaf" /\ spk[1].kind = "constspike"

SpecRates == InitRates /\ [][NextRates]_vars

\* the stored rate is a non-negative scalar or one non-negative value per
\* channel
RateFitsChannels(s) ==
    IF s.rvec = <<>> THEN s.param >= 0
    ELSE Len(s.rvec) = Len(s.ch) /\ \A k \in DOMAIN s.rvec : s.rvec[k] >= 0

\* C39 (as stated): after every rate or channels setter call the stored rate
\* is a scalar or has exactly one non-negative value per current channel, and
\* no build fails drawing counts with a rate of the wrong size
C39_RateFitsChannels ==
    [][/\ RateFitsChannels(spk'[1])
       /\ (BuildStep("s1") => last'.err # "ValueError: shape mismatch")]_vars

\* C39 (the rate setter alone): after a successful rate setter call the
\* stored rate fits the channels of that moment, a refused call changes
\* nothing, and a build fails on the shapes exactly when the stored rate has
\* a length other than the number of channels
C39_RateFitsWhenSet ==
    [][/\ (ops' # ops /\ last'.who = "s1" /\ last'.op = "set_rate") =>
             IF last'.err = "ok" THEN RateFitsChannels(spk'[1])
             ELSE spk'[1] = spk[1]
       /\ (BuildStep("s1") /\ ~spk[1].frozen) =>
             (last'.err = "ValueError: shape mismatch"
                 <=> (spk[1].rvec # <<>> /\ Len(spk[1].rvec) # Len(spk[1].ch)))]_vars

\* a rate with two values is stored, the channels were then set to a single
\* one, and the build has failed on the shapes
C39_StaleRate ==
    /\ focus = "leaf"
    /\ spk[1].kind = "constspike"
    /\ Len(spk[1].rvec) = 2 /\ Len(spk[1].ch) = 1
    /\ last.who = "s1" /\ last.op = "build" /\ last.err = "ValueError: shape mismatch"

\* a rate with one value per channel is stored and the build has succeeded
C39_VectorRateBuilt ==
    /\ focus = "leaf"
    /\ spk[1].kind = "constspike"
    /\ spk[1].rvec = <<0, 1>> /\ Len(spk[1].ch) = 2
    /\ spk[1].built

====
